---- MODULE Spec2Model ----
(***************************************************************************)
(* Leave, transport and attendance engine of the shelter kiosk             *)
(* (src/app.py).                                                           *)
(*                                                                         *)
(* Persistent state is the relational store (residents, leave_requests,    *)
(* transport_requests, attendance_events, audit_log), one row per sequence *)
(* element, the row id being the index.  Every SQL statement is committed  *)
(* on its own (autocommit / conn.commit() in db_execute), so a staff       *)
(* handler that issues several statements is a sequence of atomic steps,   *)
(* and two handlers that overlap in time interleave at statement           *)
(* granularity.                                                            *)
(*                                                                         *)
(* Text is a sequence of one-character strings, instants are integers      *)
(* counted in ticks (TicksPerSecond ticks to the second; stored instants   *)
(* have whole-second resolution, see utcnow_iso).                          *)
(***************************************************************************)
EXTENDS Integers, Sequences, FiniteSets, TLC

\* ---------------------------------------------------------------- constants
SHELTERS == <<"Abba", "Haven", "Gratitude">>
MAX_LEAVE_DAYS == 7
SecondsPerDay == 86400
CodeLength == 8

\* ------------------------------------------------------------------- bounds
TicksPerSecond == 2
MaxNow == 1
MaxLeaveRequests == 1
MaxTransportRequests == 1
MaxStaffRequests == 3
MaxAttendanceNow == 2
MaxAttendanceEvents == 3
MaxListedRows == 2
MaxResidents == 5
MaxSms == 3

\* SQL NULL of a numeric / timestamp column, and of a text column
NULL == -1
NULL_TEXT == <<"NULL">>

Range(s) == {s[i] : i \in DOMAIN s}
ShelterSet == Range(SHELTERS)
Staff == {1, 2}

\* ------------------------------------------------------------ text helpers
Digits == {"0", "1", "2", "3", "4", "5", "6", "7", "8", "9"}

RECURSIVE LStrip(_)
LStrip(s) == IF s # <<>> /\ Head(s) = " " THEN LStrip(Tail(s)) ELSE s

RECURSIVE RStrip(_)
RStrip(s) ==
    IF s # <<>> /\ s[Len(s)] = " " THEN RStrip(SubSeq(s, 1, Len(s) - 1)) ELSE s

\* str.strip()
Strip(s) == RStrip(LStrip(s))

\* str.isdigit(): false for the empty string
IsDigit(s) == s # <<>> /\ \A i \in DOMAIN s : s[i] \in Digits

\* "".join(ch for ch in raw if ch.isdigit())
OnlyDigits(s) == SelectSeq(s, LAMBDA ch : ch \in Digits)

\* x or None
OrNone(s) == IF s = <<>> THEN NULL_TEXT ELSE s

\* ------------------------------------------------------------ time helpers
\* datetime.replace(microsecond=0): drop the sub-second part
TruncSecond(t) == (t \div TicksPerSecond) * TicksPerSecond

\* timedelta(days=d)
Days(d) == d * SecondsPerDay * TicksPerSecond

\* a raw date field of a form: empty, malformed, or an ISO text of instant t
EmptyDate == [text |-> "", t |-> 0]
BadDate == [text |-> "garbage", t |-> 0]
IsoDate(t) == [text |-> "iso", t |-> t]

\* parse_dt raises on anything datetime.fromisoformat cannot read
ParseFails(raw) == raw.text # "iso"
parse_dt(raw) == raw.t

\* ------------------------------------------------------------------- state
VARIABLES
    now,                \* wall clock, in seconds
    residents,          \* table residents
    leave_requests,     \* table leave_requests
    transport_requests, \* table transport_requests
    audit_log,          \* table audit_log
    sms_outbox,         \* messages handed to the SMS provider
    twilio_configured,  \* Client importable and the three TWILIO_* set
    resident_session,   \* Flask session of the resident browser
    staff_session,      \* Flask session of each staff browser
    pc,                 \* position of each staff request in its handler
    req,                \* locals of each staff request in flight
    rowcount,           \* rows affected by the last UPDATE of each request
    response,           \* the response the server sent last
    started,            \* number of staff requests begun
    writes,             \* history: successful row updates, per kind and row
    attendance_events,  \* table attendance_events, in insertion order
    attendance_view,    \* the attendance page, while it is the page served last
    trip_view,          \* the trip print, while it is the page served last
    page,               \* the leave or transport list served last
    resident_transfers  \* table resident_transfers, in insertion order

vars == <<now, residents, leave_requests, transport_requests, audit_log,
          sms_outbox, twilio_configured, resident_session,
          staff_session, pc, req, rowcount, response, started, writes,
          attendance_events, attendance_view, trip_view, page, resident_transfers>>

attVars == <<attendance_events, attendance_view, trip_view, page, resident_transfers>>
dbVars == <<residents, leave_requests, transport_requests, audit_log>>
staffVars == <<staff_session, pc, req, rowcount, started>>

\* datetime.utcnow(), the clock being read at whole seconds
utcnow == now * TicksPerSecond

\* utcnow_iso(): utcnow().replace(microsecond=0)
utcnow_iso == TruncSecond(utcnow)

\* ------------------------------------------------------------ seeded rows
Code1 == <<"1", "0", "0", "0", "0", "0", "0", "1">>
Code2 == <<"2", "0", "0", "0", "0", "0", "0", "2">>
Phone10 == <<"8", "0", "6", "5", "5", "5", "0", "1", "0", "0">>

InitResidents ==
    << [shelter |-> "Abba", resident_identifier |-> "R-1", resident_code |-> Code1,
        first_name |-> "Ann", last_name |-> "Lee", phone |-> <<>>, is_active |-> TRUE],
       [shelter |-> "Haven", resident_identifier |-> "R-2", resident_code |-> Code2,
        first_name |-> "Bea", last_name |-> "Ray", phone |-> Phone10, is_active |-> TRUE] >>

NoResidentSession ==
    [resident_id |-> NULL, resident_identifier |-> "", resident_first |-> "",
     resident_last |-> "", resident_phone |-> <<>>, resident_shelter |-> "",
     resident_code |-> <<>>, sms_consent_done |-> FALSE, sms_opt_in |-> FALSE]

\* a response: who it went to (a staff id, or Resident), the handler that
\* sent it and the form it answers, the HTTP status, the messages flashed with
\* their category, the request id a submission shows, and, where the model
\* follows it, the path redirected to and the next parameter sent along
Resident == 0
NoForm == [resident_phone |-> <<>>, destination |-> <<>>, leave_at |-> EmptyDate,
           return_at |-> EmptyDate, agreed |-> FALSE]
NoResponse ==
    [to |-> NULL, handler |-> "", form |-> NoForm, status |-> 0, flashed |-> <<>>,
     category |-> "", request_id |-> NULL, location |-> <<>>, next |-> <<>>]
ResidentResponse(handler, form, status, errors, request_id) ==
    [to |-> Resident, handler |-> handler, form |-> form, status |-> status,
     flashed |-> errors, category |-> IF errors = <<>> THEN "" ELSE "error",
     request_id |-> request_id, location |-> <<>>, next |-> <<>>]
Flash(p, message, category) ==
    [to |-> p, handler |-> "staff", form |-> NoForm, status |-> 302,
     flashed |-> <<message>>, category |-> category, request_id |-> NULL,
     location |-> <<>>, next |-> <<>>]

\* nothing rendered yet
NoAttendanceView == [shelter |-> "", at |-> NULL, n_events |-> 0, rows |-> <<>>]
NoTripView == [resident_id |-> NULL, n_events |-> 0, replayed |-> <<>>, trip_rows |-> <<>>]

\* a date field of a staff page: empty, malformed or YYYY-MM-DD, the day
\* counted from the day of instant 0
NoDay == [text |-> "", day |-> 0]
BadDay == [text |-> "garbage", day |-> 0]
Day(d) == [text |-> "date", day |-> d]

\* a list page: the handler, the shelter and day it was asked for, the instant
\* and the table it was computed from, and the ids of its rows in order
NoPage ==
    [handler |-> "", shelter |-> "", day |-> NoDay, at |-> NULL, seen |-> <<>>, rows |-> <<>>]

\* a staff request under way: what the handler holds between two statements
NoReq ==
    [id |-> NULL, shelter |-> "", staff_id |-> NULL, note |-> <<>>, driver_name |-> <<>>,
     rows |-> {}, then |-> "", code |-> <<>>, first |-> "", last |-> "",
     resident_id |-> NULL, to_shelter |-> "", exists |-> FALSE]

Init ==
    /\ now = 0
    /\ residents = InitResidents
    /\ leave_requests = <<>>
    /\ transport_requests = <<>>
    /\ audit_log = <<>>
    /\ sms_outbox = <<>>
    /\ twilio_configured \in BOOLEAN
    /\ resident_session = NoResidentSession
    /\ staff_session = [p \in Staff |-> [staff_user_id |-> p, shelter |-> SHELTERS[1]]]
    /\ pc = [p \in Staff |-> "idle"]
    /\ req = [p \in Staff |-> NoReq]
    /\ rowcount = [p \in Staff |-> NULL]
    /\ response = NoResponse
    /\ started = 0
    /\ writes = [k \in {"approve", "deny", "check_in", "schedule"} |-> <<>>]
    /\ attendance_events = <<>>
    /\ attendance_view = NoAttendanceView
    /\ trip_view = NoTripView
    /\ page = NoPage
    /\ resident_transfers = <<>>

\* ------------------------------------------------------------------ clock
\* the clock moves on by a second, up to a horizon
Advance(horizon) ==
    /\ now < horizon
    /\ now' = now + 1
    /\ UNCHANGED <<dbVars, sms_outbox, twilio_configured, attVars, resident_session, staffVars,
                   response, writes>>

Tick == Advance(MaxNow)

\* ------------------------------------------------------------- audit trail
AuditEntry(entity_type, entity_id, shelter, staff_user_id, action_type) ==
    [entity_type |-> entity_type, entity_id |-> entity_id, shelter |-> shelter,
     staff_user_id |-> staff_user_id, action_type |-> action_type]

\* log_action: INSERT INTO audit_log
log_action(log, entity_type, entity_id, shelter, staff_user_id, action_type) ==
    Append(log, AuditEntry(entity_type, entity_id, shelter, staff_user_id, action_type))

\* --------------------------------------------------------------- send_sms
NoSend == <<>>

\* slip: eleven digits are sent whatever the first one is
NormalizePhone_AnyEleven(to_number) ==
    LET raw == Strip(to_number)
        digits == OnlyDigits(raw)
    IN  IF raw # <<>> /\ raw[1] = "+" THEN raw
        ELSE IF Len(digits) = 10 THEN <<"+", "1">> \o digits
        ELSE IF Len(digits) = 11 THEN <<"+">> \o digits
        ELSE NoSend

\* the number send_sms hands to the provider, NoSend when it returns early
NormalizePhone(to_number) ==
    LET raw == Strip(to_number)
        digits == OnlyDigits(raw)
    IN  IF raw # <<>> /\ raw[1] = "+" THEN raw
        ELSE IF Len(digits) = 10 THEN <<"+", "1">> \o digits
        ELSE IF Len(digits) = 11 /\ digits[1] = "1" THEN <<"+">> \o digits
        ELSE NoSend

\* send_sms: the outbox after the call; provider_ok is the outcome of
\* client.messages.create, whose exception is caught inside send_sms
send_sms(outbox, to_number, message, provider_ok) ==
    IF ~twilio_configured THEN outbox
    ELSE IF NormalizePhone(to_number) = NoSend THEN outbox
    ELSE Append(outbox, [to |-> NormalizePhone(to_number), body |-> message,
                         delivered |-> provider_ok])

\* ------------------------------------------------------- resident sign-in
\* rows of SELECT ... WHERE shelter = ? AND resident_code = ? AND is_active
\* slip: the lookup does not look at is_active
ActiveByCode_AnyStatus(shelter, resident_code) ==
    {i \in DOMAIN residents :
        /\ residents[i].shelter = shelter
        /\ residents[i].resident_code = resident_code}

ActiveByCode(shelter, resident_code) ==
    {i \in DOMAIN residents :
        /\ residents[i].shelter = shelter
        /\ residents[i].resident_code = resident_code
        /\ residents[i].is_active}

Min(S) == CHOOSE x \in S : \A y \in S : x <= y

resident_session_start(sess, rid, shelter, resident_code) ==
    [sess EXCEPT !.resident_id = rid,
                 !.resident_identifier = residents[rid].resident_identifier,
                 !.resident_first = residents[rid].first_name,
                 !.resident_last = residents[rid].last_name,
                 !.resident_phone = residents[rid].phone,
                 !.resident_shelter = shelter,
                 !.resident_code = resident_code]

\* url_for("resident_leave"), url_for("resident_consent")
LeaveUrl == <<"/", "l">>
ConsentUrl == <<"/", "c">>

\* the page to go on to: the leave form unless next is a path of this site
NextUrl(next_raw) ==
    IF Strip(next_raw) = <<>> \/ Strip(next_raw)[1] # "/" THEN LeaveUrl ELSE Strip(next_raw)

\* POST /resident
ResidentSigninTo(shelter, code_raw, next_raw) ==
    LET resident_code == Strip(code_raw)
        rows == ActiveByCode(shelter, resident_code)
    IN  /\ IF shelter \notin ShelterSet
             THEN /\ response' = ResidentResponse("signin", NoForm, 302, <<"Select a valid shelter.">>, NULL)
                  /\ UNCHANGED resident_session
           ELSE IF (~IsDigit(resident_code)) \/ Len(resident_code) # CodeLength
             THEN /\ response' = ResidentResponse("signin", NoForm, 302, <<"Enter your 8 digit Resident Code.">>, NULL)
                  /\ UNCHANGED resident_session
           ELSE IF rows = {}
             THEN /\ response' = ResidentResponse("signin", NoForm, 302, <<"Invalid Resident Code.">>, NULL)
                  /\ UNCHANGED resident_session
           ELSE /\ resident_session' =
                      resident_session_start(resident_session, Min(rows), shelter, resident_code)
                /\ response' =
                      IF ~resident_session.sms_consent_done
                      THEN [ResidentResponse("signin", NoForm, 302, <<>>, NULL)
                               EXCEPT !.location = ConsentUrl, !.next = NextUrl(next_raw)]
                      ELSE [ResidentResponse("signin", NoForm, 302, <<>>, NULL)
                               EXCEPT !.location = NextUrl(next_raw)]
        /\ UNCHANGED <<now, dbVars, sms_outbox, twilio_configured, attVars, staffVars, writes>>

\* POST /resident without a next field
ResidentSignin(shelter, code_raw) == ResidentSigninTo(shelter, code_raw, <<>>)

\* choice.strip().lower(), for the choices the model submits
Lower(choice) ==
    CASE choice = " Accept" -> "accept"
      [] choice = "DECLINE" -> "decline"
      [] OTHER -> choice

\* POST /resident/consent: no decorator guards it
ResidentConsent(choice_raw, next_raw) ==
    /\ IF Lower(choice_raw) \notin {"accept", "decline"}
         THEN /\ response' = ResidentResponse("consent", NoForm, 400, <<"Select accept or decline.">>, NULL)
              /\ UNCHANGED resident_session
       ELSE /\ resident_session' =
                  [resident_session EXCEPT !.sms_consent_done = TRUE,
                                           !.sms_opt_in = (Lower(choice_raw) = "accept")]
            /\ response' = [ResidentResponse("consent", NoForm, 302, <<>>, NULL)
                               EXCEPT !.location = NextUrl(next_raw)]
    /\ UNCHANGED <<now, dbVars, sms_outbox, twilio_configured, attVars, staffVars, writes>>

\* GET /resident/logout: every resident key is popped
ResidentLogout ==
    /\ resident_session' = NoResidentSession
    /\ response' = ResidentResponse("logout", NoForm, 302, <<>>, NULL)
    /\ UNCHANGED <<now, dbVars, sms_outbox, twilio_configured, attVars, staffVars, writes>>

\* --------------------------------------------------------- leave submission
\* slip: the agreement flag is not checked
LeaveErrors_NoAgreement(first, last, resident_phone, destination, leave_at_raw, return_at_raw, agreed) ==
    (IF first = "" \/ last = "" \/ destination = <<>>
           \/ leave_at_raw.text = "" \/ return_at_raw.text = ""
        THEN <<"Complete all required fields.">> ELSE <<>>)
    \o (IF resident_phone = <<>>
        THEN <<"A phone number is required for text updates.">> ELSE <<>>)
    \o (IF ParseFails(leave_at_raw) \/ ParseFails(return_at_raw)
        THEN <<"Invalid date.">>
        ELSE (IF parse_dt(return_at_raw) <= parse_dt(leave_at_raw)
              THEN <<"Return must be after leave.">> ELSE <<>>)
             \o (IF parse_dt(return_at_raw) > parse_dt(leave_at_raw) + Days(MAX_LEAVE_DAYS)
                 THEN <<"Maximum leave is 7 days.">> ELSE <<>>))

\* errors collected by resident_leave, in the order the code appends them
LeaveErrors(first, last, resident_phone, destination, leave_at_raw, return_at_raw, agreed) ==
    (IF ~agreed THEN <<"You must accept the agreement.">> ELSE <<>>)
    \o (IF first = "" \/ last = "" \/ destination = <<>>
           \/ leave_at_raw.text = "" \/ return_at_raw.text = ""
        THEN <<"Complete all required fields.">> ELSE <<>>)
    \o (IF resident_phone = <<>>
        THEN <<"A phone number is required for text updates.">> ELSE <<>>)
    \o (IF ParseFails(leave_at_raw) \/ ParseFails(return_at_raw)
        THEN <<"Invalid date.">>
        ELSE (IF parse_dt(return_at_raw) <= parse_dt(leave_at_raw)
              THEN <<"Return must be after leave.">> ELSE <<>>)
             \o (IF parse_dt(return_at_raw) > parse_dt(leave_at_raw) + Days(MAX_LEAVE_DAYS)
                 THEN <<"Maximum leave is 7 days.">> ELSE <<>>))

\* UPDATE residents SET phone = ? WHERE shelter = ? AND resident_identifier = ?
UpdateResidentPhone(rows, resident_phone, shelter, resident_identifier) ==
    [i \in DOMAIN rows |->
        IF rows[i].shelter = shelter /\ rows[i].resident_identifier = resident_identifier
        THEN [rows[i] EXCEPT !.phone = resident_phone]
        ELSE rows[i]]

NewLeaveRequest(shelter, resident_identifier, first, last, resident_phone, destination, leave_iso, return_iso, submitted) ==
    [shelter |-> shelter, resident_identifier |-> resident_identifier,
     first_name |-> first, last_name |-> last, resident_phone |-> resident_phone,
     destination |-> destination, leave_at |-> leave_iso, return_at |-> return_iso,
     status |-> "pending", submitted_at |-> submitted,
     decided_at |-> NULL, decided_by |-> NULL, decision_note |-> NULL_TEXT,
     check_in_at |-> NULL, check_in_by |-> NULL]

\* POST /leave
ResidentLeave(form) ==
    LET shelter == resident_session.resident_shelter
        resident_identifier == resident_session.resident_identifier
        first == resident_session.resident_first
        last == resident_session.resident_last
        resident_phone == Strip(form.resident_phone)
        destination == Strip(form.destination)
        errors == LeaveErrors(first, last, resident_phone, destination,
                              form.leave_at, form.return_at, form.agreed)
        req_id == Len(leave_requests) + 1
    IN  /\ Len(leave_requests) < MaxLeaveRequests
        /\ IF resident_session.resident_id = NULL
             THEN \* require_resident: redirect to sign-in
                  /\ response' = ResidentResponse("leave", form, 302, <<>>, NULL)
                  /\ UNCHANGED dbVars
           ELSE /\ residents' =
                      IF resident_phone # <<>>
                      THEN UpdateResidentPhone(residents, resident_phone, shelter,
                                               resident_identifier)
                      ELSE residents
                /\ IF errors # <<>>
                     THEN /\ response' = ResidentResponse("leave", form, 400, errors, NULL)
                          /\ UNCHANGED <<leave_requests, audit_log>>
                   ELSE /\ leave_requests' =
                              Append(leave_requests,
                                     NewLeaveRequest(shelter, resident_identifier, first, last,
                                                     resident_phone, destination,
                                                     TruncSecond(parse_dt(form.leave_at)),
                                                     TruncSecond(parse_dt(form.return_at)),
                                                     utcnow_iso))
                        /\ audit_log' = log_action(audit_log, "leave", req_id, shelter,
                                                   NULL, "create")
                        /\ response' = ResidentResponse("leave", form, 200, <<>>, req_id)
                /\ UNCHANGED transport_requests
        /\ UNCHANGED <<now, sms_outbox, twilio_configured, attVars, resident_session, staffVars, writes>>

\* ----------------------------------------------------- transport submission
\* America/Chicago: six hours behind UTC in standard time, five in daylight
\* time, which starts at 02:00 standard time of one day and ends at 02:00
\* daylight time of a later one
ChicagoOffsetHours == 6
DstStartsUtc == Days(100) + (2 + ChicagoOffsetHours) * 3600 * TicksPerSecond
DstEndsUtc == Days(300) + (1 + ChicagoOffsetHours) * 3600 * TicksPerSecond

\* utcoffset() of America/Chicago at the UTC instant t, in hours behind UTC
UtcOffsetHours(t) ==
    IF DstStartsUtc <= t /\ t < DstEndsUtc THEN ChicagoOffsetHours - 1 ELSE ChicagoOffsetHours

\* astimezone(timezone.utc) of the local wall time t with the given fold: a
\* wall time that occurs twice is the first occurrence when fold is 0 and the
\* second when it is 1; one that never occurs is read with the offset in force
\* before the gap when fold is 0 and after it when fold is 1
WallToUtc(t, fold) ==
    LET std == t + ChicagoOffsetHours * 3600 * TicksPerSecond
        dst == t + (ChicagoOffsetHours - 1) * 3600 * TicksPerSecond
        std_ok == UtcOffsetHours(std) = ChicagoOffsetHours
        dst_ok == UtcOffsetHours(dst) = ChicagoOffsetHours - 1
    IN  IF std_ok /\ dst_ok THEN (IF fold = 0 THEN dst ELSE std)
        ELSE IF std_ok THEN std
        ELSE IF dst_ok THEN dst
        ELSE (IF fold = 0 THEN std ELSE dst)

\* naive local wall time read as America/Chicago (replace(tzinfo=...)), as UTC
LocalToUtc(t) == WallToUtc(t, 0)

TransportErrors(first, last, needed_raw, pickup, destination) ==
    (IF first = "" \/ last = "" \/ needed_raw.text = "" \/ pickup = <<>> \/ destination = <<>>
     THEN <<"Complete all required fields.">> ELSE <<>>)
    \o (IF ParseFails(needed_raw)
        THEN <<"Invalid needed date or time.">>
        ELSE IF LocalToUtc(parse_dt(needed_raw)) < utcnow - 60 * TicksPerSecond
        THEN <<"Needed time cannot be in the past.">>
        ELSE <<>>)

NewTransportRequest(shelter, resident_identifier, first, last, needed_iso, pickup, destination, submitted) ==
    [shelter |-> shelter, resident_identifier |-> resident_identifier,
     first_name |-> first, last_name |-> last, needed_at |-> needed_iso,
     pickup_location |-> pickup, destination |-> destination,
     status |-> "pending", submitted_at |-> submitted,
     scheduled_at |-> NULL, scheduled_by |-> NULL, driver_name |-> NULL_TEXT,
     staff_notes |-> NULL_TEXT]

\* POST /transport
ResidentTransport(form) ==
    LET shelter == resident_session.resident_shelter
        resident_identifier == resident_session.resident_identifier
        first == resident_session.resident_first
        last == resident_session.resident_last
        pickup == Strip(form.pickup_location)
        destination == Strip(form.destination)
        errors == TransportErrors(first, last, form.needed_at, pickup, destination)
        req_id == Len(transport_requests) + 1
    IN  /\ Len(transport_requests) < MaxTransportRequests
        /\ IF resident_session.resident_id = NULL
             THEN /\ response' = ResidentResponse("transport", NoForm, 302, <<>>, NULL)
                  /\ UNCHANGED <<transport_requests, audit_log>>
           ELSE IF errors # <<>>
             THEN /\ response' = ResidentResponse("transport", NoForm, 400, errors, NULL)
                  /\ UNCHANGED <<transport_requests, audit_log>>
           ELSE /\ transport_requests' =
                      Append(transport_requests,
                             NewTransportRequest(shelter, resident_identifier, first, last,
                                                 TruncSecond(LocalToUtc(parse_dt(form.needed_at))),
                                                 pickup, destination, utcnow_iso))
                /\ audit_log' = log_action(audit_log, "transport", req_id, shelter,
                                           NULL, "create")
                /\ response' = ResidentResponse("transport", NoForm, 200, <<>>, req_id)
        /\ UNCHANGED <<now, residents, leave_requests, sms_outbox, twilio_configured, attVars,
                       resident_session, staffVars, writes>>

\* ------------------------------------------------------------ staff session
\* POST /staff/select-shelter (require_login passes: the staff are logged in)
StaffSelectShelter(p, shelter) ==
    /\ pc[p] = "idle"
    /\ started < MaxStaffRequests
    /\ started' = started + 1
    /\ staff_session' =
          IF shelter \in ShelterSet
          THEN [staff_session EXCEPT ![p].shelter = shelter]
          ELSE staff_session
    /\ response' =
          IF shelter \in ShelterSet
          THEN Flash(p, "", "")
          ELSE Flash(p, "Select a valid shelter.", "error")
    /\ UNCHANGED <<now, dbVars, sms_outbox, twilio_configured, attVars, resident_session,
                   pc, req, rowcount, writes>>

\* require_login and require_shelter pass, and the handler may start
CanStart(p) ==
    /\ pc[p] = "idle"
    /\ staff_session[p].shelter # ""
    /\ started < MaxStaffRequests

\* ------------------------------------------------------ conditional UPDATE
\* slip: the row is named by its id alone
InShelter_AnyShelter(rows, id, shelter) == id \in DOMAIN rows

\* the row named by WHERE id = ? AND shelter = ?
InShelter(rows, id, shelter) == id \in DOMAIN rows /\ rows[id].shelter = shelter

\* UPDATE: the table after the statement, row being the matched row as SET
Update(rows, id, matched, row) == IF matched THEN [rows EXCEPT ![id] = row] ELSE rows

\* cursor.rowcount of that UPDATE (db_execute discards it)
RowCount(matched) == IF matched THEN 1 ELSE 0

Recorded(kind, id, n) ==
    IF n = 1 THEN [writes EXCEPT ![kind] = Append(@, id)] ELSE writes

\* ------------------------------------------------------------ leave approve
\* slip: the SELECTed row's status is not looked at
ApproveAllowed_NoStatusCheck(rows, id, shelter) ==
    id \in DOMAIN rows /\ rows[id].shelter = shelter

\* the status check staff_leave_approve makes on the row it has SELECTed
ApproveAllowed(rows, id, shelter) ==
    id \in DOMAIN rows /\ rows[id].shelter = shelter /\ rows[id].status = "pending"

\* WHERE id = ? AND shelter = ?  (no condition on status)
ApproveWhere(row) == TRUE

ApproveMatches(rows, id, shelter) == InShelter(rows, id, shelter) /\ ApproveWhere(rows[id])

ApproveSet(row, decided_at, staff_id, note) ==
    [row EXCEPT !.status = "approved", !.decided_at = decided_at,
                !.decided_by = staff_id, !.decision_note = OrNone(note)]

\* POST /staff/leave/<id>/approve: SELECT the row and check its status
StaffLeaveApprove(p, req_id, note_raw) ==
    /\ CanStart(p)
    /\ started' = started + 1
    /\ rowcount' = [rowcount EXCEPT ![p] = NULL]
    /\ IF ApproveAllowed(leave_requests, req_id, staff_session[p].shelter)
         THEN /\ pc' = [pc EXCEPT ![p] = "approve_update"]
              /\ req' = [req EXCEPT ![p] =
                            [NoReq EXCEPT !.id = req_id,
                                          !.shelter = staff_session[p].shelter,
                                          !.staff_id = staff_session[p].staff_user_id,
                                          !.note = Strip(note_raw)]]
              /\ UNCHANGED response
         ELSE /\ response' = Flash(p, "Not pending.", "error")
              /\ UNCHANGED <<pc, req>>
    /\ UNCHANGED <<now, dbVars, sms_outbox, twilio_configured, attVars, resident_session,
                   staff_session, writes>>

\* ... UPDATE leave_requests SET status = 'approved', ...
ApproveUpdate(p) ==
    /\ pc[p] = "approve_update"
    /\ leave_requests' =
          Update(leave_requests, req[p].id, ApproveMatches(leave_requests, req[p].id, req[p].shelter),
                 ApproveSet(leave_requests[req[p].id], utcnow_iso, req[p].staff_id, req[p].note))
    /\ rowcount' = [rowcount EXCEPT ![p] =
                       RowCount(ApproveMatches(leave_requests, req[p].id, req[p].shelter))]
    /\ writes' = Recorded("approve", req[p].id,
                          RowCount(ApproveMatches(leave_requests, req[p].id, req[p].shelter)))
    /\ pc' = [pc EXCEPT ![p] = "approve_log"]
    /\ UNCHANGED <<now, residents, transport_requests, audit_log, sms_outbox,
                   twilio_configured, attVars, resident_session, staff_session, req,
                   response, started>>

\* ... log_action("leave", req_id, shelter, staff_id, "approve", ...)
ApproveLog(p) ==
    /\ pc[p] = "approve_log"
    /\ audit_log' = log_action(audit_log, "leave", req[p].id, req[p].shelter,
                               req[p].staff_id, "approve")
    /\ pc' = [pc EXCEPT ![p] = "approve_notify"]
    /\ UNCHANGED <<now, residents, leave_requests, transport_requests, sms_outbox,
                   twilio_configured, attVars, resident_session, staff_session, req, rowcount,
                   response, started, writes>>

ApprovalMessage(id, row) ==
    [leave_id |-> id, first_name |-> row.first_name, last_name |-> row.last_name]

\* whether the call send_sms(phone, msg) raises into staff_leave_approve:
\* the early returns raise nothing and the provider call sits in send_sms's
\* own try / except Exception, which prints and returns
SendSmsRaises(to_number, provider_ok) == FALSE

\* slip: a failed send is reported to the staff member
ApproveResponse_Propagates(p, provider_ok) ==
    IF provider_ok THEN Flash(p, "Approved.", "ok") ELSE Flash(p, "SMS failed.", "error")

\* flash("Approved.", "ok"); redirect
ApproveResponse(p, provider_ok) == Flash(p, "Approved.", "ok")

\* the approval SMS is attempted: the row is still there and has a phone
SmsAttempted(p) ==
    /\ InShelter(leave_requests, req[p].id, req[p].shelter)
    /\ leave_requests[req[p].id].resident_phone \notin {<<>>, NULL_TEXT}

\* ... SELECT the row again, send the approval SMS (except: log sms_failed),
\* flash "Approved."
ApproveNotify(p, provider_ok) ==
    /\ pc[p] = "approve_notify"
    /\ sms_outbox' =
          IF SmsAttempted(p)
          THEN send_sms(sms_outbox, leave_requests[req[p].id].resident_phone,
                        ApprovalMessage(req[p].id, leave_requests[req[p].id]), provider_ok)
          ELSE sms_outbox
    /\ audit_log' =
          IF /\ SmsAttempted(p)
             /\ SendSmsRaises(leave_requests[req[p].id].resident_phone, provider_ok)
          THEN log_action(audit_log, "leave", req[p].id, req[p].shelter, req[p].staff_id,
                          "sms_failed")
          ELSE audit_log
    /\ response' = ApproveResponse(p, provider_ok)
    /\ pc' = [pc EXCEPT ![p] = "idle"]
    /\ req' = [req EXCEPT ![p] = NoReq]
    /\ rowcount' = [rowcount EXCEPT ![p] = NULL]
    /\ UNCHANGED <<now, residents, leave_requests, transport_requests, twilio_configured, attVars,
                   resident_session, staff_session, started, writes>>

\* --------------------------------------------------------------- leave deny
\* slip: the UPDATE is not conditional on the status
DenyWhere_Unconditional(row) == TRUE

\* ... AND status = 'pending'
DenyWhere(row) == row.status = "pending"

DenyMatches(rows, id, shelter) == InShelter(rows, id, shelter) /\ DenyWhere(rows[id])

DenySet(row, decided_at, staff_id, note) ==
    [row EXCEPT !.status = "denied", !.decided_at = decided_at,
                !.decided_by = staff_id, !.decision_note = note]

\* slip: the note check is left out
DenyNoteMissing_Never(note) == FALSE

\* the note check that precedes the UPDATE
DenyNoteMissing(note) == note = <<>>

\* POST /staff/leave/<id>/deny: note check, then the conditional UPDATE
StaffLeaveDeny(p, req_id, note_raw) ==
    LET shelter == staff_session[p].shelter
        staff_id == staff_session[p].staff_user_id
        note == Strip(note_raw)
    IN  /\ CanStart(p)
        /\ started' = started + 1
        /\ IF DenyNoteMissing(note)
             THEN /\ response' =
                        Flash(p, "Denial note required.", "error")
                  /\ rowcount' = [rowcount EXCEPT ![p] = NULL]
                  /\ UNCHANGED <<leave_requests, pc, req, writes>>
             ELSE /\ leave_requests' =
                        Update(leave_requests, req_id, DenyMatches(leave_requests, req_id, shelter),
                               DenySet(leave_requests[req_id], utcnow_iso, staff_id, note))
                  /\ rowcount' = [rowcount EXCEPT ![p] =
                                     RowCount(DenyMatches(leave_requests, req_id, shelter))]
                  /\ writes' = Recorded("deny", req_id,
                                        RowCount(DenyMatches(leave_requests, req_id, shelter)))
                  /\ pc' = [pc EXCEPT ![p] = "deny_log"]
                  /\ req' = [req EXCEPT ![p] =
                                [NoReq EXCEPT !.id = req_id, !.shelter = shelter,
                                              !.staff_id = staff_id, !.note = note]]
                  /\ UNCHANGED response
        /\ UNCHANGED <<now, residents, transport_requests, audit_log, sms_outbox,
                       twilio_configured, attVars, resident_session, staff_session>>

\* slip: the denial is texted to the resident as the approval is
DenyLog_Texts(p) ==
    /\ pc[p] = "deny_log"
    /\ audit_log' = log_action(audit_log, "leave", req[p].id, req[p].shelter,
                               req[p].staff_id, "deny")
    /\ sms_outbox' =
          IF SmsAttempted(p)
          THEN send_sms(sms_outbox, leave_requests[req[p].id].resident_phone,
                        ApprovalMessage(req[p].id, leave_requests[req[p].id]), TRUE)
          ELSE sms_outbox
    /\ response' = Flash(p, "Denied.", "ok")
    /\ pc' = [pc EXCEPT ![p] = "idle"]
    /\ req' = [req EXCEPT ![p] = NoReq]
    /\ rowcount' = [rowcount EXCEPT ![p] = NULL]
    /\ UNCHANGED <<now, residents, leave_requests, transport_requests,
                   twilio_configured, attVars, resident_session, staff_session, started, writes>>

\* ... log_action(..., "deny", note); flash "Denied."
DenyLog(p) ==
    /\ pc[p] = "deny_log"
    /\ audit_log' = log_action(audit_log, "leave", req[p].id, req[p].shelter,
                               req[p].staff_id, "deny")
    /\ response' = Flash(p, "Denied.", "ok")
    /\ pc' = [pc EXCEPT ![p] = "idle"]
    /\ req' = [req EXCEPT ![p] = NoReq]
    /\ rowcount' = [rowcount EXCEPT ![p] = NULL]
    /\ UNCHANGED <<now, residents, leave_requests, transport_requests, sms_outbox,
                   twilio_configured, attVars, resident_session, staff_session, started, writes>>

\* ----------------------------------------------------------- leave check-in
\* slip: the UPDATE is not conditional on status and check_in_at
CheckInWhere_Always(row) == TRUE

\* ... AND status = 'approved' AND check_in_at IS NULL
CheckInWhere(row) == row.status = "approved" /\ row.check_in_at = NULL

CheckInMatches(rows, id, shelter) == InShelter(rows, id, shelter) /\ CheckInWhere(rows[id])

CheckInSet(row, check_in_at, staff_id) ==
    [row EXCEPT !.status = "checked_in", !.check_in_at = check_in_at,
                !.check_in_by = staff_id]

\* POST /staff/leave/<id>/check-in: the conditional UPDATE
StaffLeaveCheckIn(p, req_id) ==
    LET shelter == staff_session[p].shelter
        staff_id == staff_session[p].staff_user_id
    IN  /\ CanStart(p)
        /\ started' = started + 1
        /\ leave_requests' =
              Update(leave_requests, req_id, CheckInMatches(leave_requests, req_id, shelter),
                     CheckInSet(leave_requests[req_id], utcnow_iso, staff_id))
        /\ rowcount' = [rowcount EXCEPT ![p] =
                           RowCount(CheckInMatches(leave_requests, req_id, shelter))]
        /\ writes' = Recorded("check_in", req_id,
                              RowCount(CheckInMatches(leave_requests, req_id, shelter)))
        /\ pc' = [pc EXCEPT ![p] = "check_in_log"]
        /\ req' = [req EXCEPT ![p] =
                      [NoReq EXCEPT !.id = req_id, !.shelter = shelter, !.staff_id = staff_id]]
        /\ UNCHANGED response
        /\ UNCHANGED <<now, residents, transport_requests, audit_log, sms_outbox,
                       twilio_configured, attVars, resident_session, staff_session>>

\* ... log_action(..., "check_in", note); flash "Checked in."
CheckInLog(p) ==
    /\ pc[p] = "check_in_log"
    /\ audit_log' = log_action(audit_log, "leave", req[p].id, req[p].shelter,
                               req[p].staff_id, "check_in")
    /\ response' = Flash(p, "Checked in.", "ok")
    /\ pc' = [pc EXCEPT ![p] = "idle"]
    /\ req' = [req EXCEPT ![p] = NoReq]
    /\ rowcount' = [rowcount EXCEPT ![p] = NULL]
    /\ UNCHANGED <<now, residents, leave_requests, transport_requests, sms_outbox,
                   twilio_configured, attVars, resident_session, staff_session, started, writes>>

\* ------------------------------------------------------- transport schedule
\* ... AND status = 'pending'
ScheduleWhere(row) == row.status = "pending"

ScheduleMatches(rows, id, shelter) == InShelter(rows, id, shelter) /\ ScheduleWhere(rows[id])

\* slip: the row is not stamped with the instant and the staff member
ScheduleSet_NoStamp(row, scheduled_at, staff_id, driver_name, staff_notes) ==
    [row EXCEPT !.status = "scheduled", !.driver_name = driver_name,
                !.staff_notes = OrNone(staff_notes)]

ScheduleSet(row, scheduled_at, staff_id, driver_name, staff_notes) ==
    [row EXCEPT !.status = "scheduled", !.scheduled_at = scheduled_at,
                !.scheduled_by = staff_id, !.driver_name = driver_name,
                !.staff_notes = OrNone(staff_notes)]

\* POST /staff/transport/<id>/schedule: driver check, then the conditional UPDATE
StaffTransportSchedule(p, req_id, driver_raw, notes_raw) ==
    LET shelter == staff_session[p].shelter
        staff_id == staff_session[p].staff_user_id
        driver_name == Strip(driver_raw)
        staff_notes == Strip(notes_raw)
    IN  /\ CanStart(p)
        /\ started' = started + 1
        /\ IF driver_name = <<>>
             THEN /\ response' =
                        Flash(p, "Driver name required.", "error")
                  /\ rowcount' = [rowcount EXCEPT ![p] = NULL]
                  /\ UNCHANGED <<transport_requests, pc, req, writes>>
             ELSE /\ transport_requests' =
                        Update(transport_requests, req_id,
                               ScheduleMatches(transport_requests, req_id, shelter),
                               ScheduleSet(transport_requests[req_id], utcnow_iso, staff_id,
                                           driver_name, staff_notes))
                  /\ rowcount' = [rowcount EXCEPT ![p] =
                                     RowCount(ScheduleMatches(transport_requests, req_id, shelter))]
                  /\ writes' = Recorded("schedule", req_id,
                                        RowCount(ScheduleMatches(transport_requests, req_id,
                                                                 shelter)))
                  /\ pc' = [pc EXCEPT ![p] = "schedule_log"]
                  /\ req' = [req EXCEPT ![p] =
                                [NoReq EXCEPT !.id = req_id, !.shelter = shelter,
                                              !.staff_id = staff_id,
                                              !.driver_name = driver_name]]
                  /\ UNCHANGED response
        /\ UNCHANGED <<now, residents, leave_requests, audit_log, sms_outbox,
                       twilio_configured, attVars, resident_session, staff_session>>

\* ... log_action("transport", ..., "schedule", ...); flash "Scheduled."
ScheduleLog(p) ==
    /\ pc[p] = "schedule_log"
    /\ audit_log' = log_action(audit_log, "transport", req[p].id, req[p].shelter,
                               req[p].staff_id, "schedule")
    /\ response' = Flash(p, "Scheduled.", "ok")
    /\ pc' = [pc EXCEPT ![p] = "idle"]
    /\ req' = [req EXCEPT ![p] = NoReq]
    /\ rowcount' = [rowcount EXCEPT ![p] = NULL]
    /\ UNCHANGED <<now, residents, leave_requests, transport_requests, sms_outbox,
                   twilio_configured, attVars, resident_session, staff_session, started, writes>>

\* -------------------------------------------------------------- attendance
AttendanceEvent(resident_id, shelter, event_type, event_time, staff_user_id, expected_back_time) ==
    [resident_id |-> resident_id, shelter |-> shelter, event_type |-> event_type,
     event_time |-> event_time, staff_user_id |-> staff_user_id,
     expected_back_time |-> expected_back_time]

\* ids of the rows WHERE resident_id = ? AND shelter = ? among the first n rows
EventsOf(events, n, resident_id, shelter) ==
    {i \in 1..n : events[i].resident_id = resident_id /\ events[i].shelter = shelter}

OfType(events, ids, event_type) == {i \in ids : events[i].event_type = event_type}

\* no row
NoRow == 0

\* the rows ORDER BY event_time DESC LIMIT 1 may return: a row of greatest
\* event_time, the order among rows of equal event_time being unspecified
LastByEventTime(events, ids) ==
    IF ids = {} THEN {NoRow}
    ELSE {i \in ids : \A j \in ids : events[j].event_time <= events[i].event_time}

\* slip: a resident without events is taken to be out
RowEventType_DefaultOut(events, i) ==
    IF i = NoRow THEN "check_out" ELSE events[i].event_type

\* last_event_type = "" unless a row came back
RowEventType(events, i) == IF i = NoRow THEN "" ELSE events[i].event_type

RowEventTime(events, i) == IF i = NoRow THEN NULL ELSE events[i].event_time
RowExpectedBack(events, i) == IF i = NoRow THEN NULL ELSE events[i].expected_back_time

\* SELECT event_time ... AND event_type = 'check_in' AND event_time > ?
\* ORDER BY event_time DESC LIMIT 1, asked only when there is a checkout_time
CheckinAfter(events, ids, checkout_time) ==
    IF checkout_time = NULL THEN NULL
    ELSE LET after == {i \in OfType(events, ids, "check_in") :
                          events[i].event_time > checkout_time}
         IN  IF after = {} THEN NULL
             ELSE events[CHOOSE i \in LastByEventTime(events, after) : TRUE].event_time

\* is_overdue = is_out and expected_back_time and parse_dt(...) < utcnow()
IsOverdue(is_out, expected_back_time, at) ==
    is_out /\ expected_back_time # NULL /\ expected_back_time < at

\* one row of the attendance page, last_event and last_checkout being the rows
\* the two LIMIT 1 queries returned
AttendanceRow(events, ids, resident_id, last_event, last_checkout, at) ==
    [resident_id |-> resident_id,
     checked_out_at |-> RowEventTime(events, last_checkout),
     expected_back_at |-> RowExpectedBack(events, last_checkout),
     checked_in_at |-> CheckinAfter(events, ids, RowEventTime(events, last_checkout)),
     is_out |-> RowEventType(events, last_event) = "check_out",
     is_overdue |-> IsOverdue(RowEventType(events, last_event) = "check_out",
                              RowExpectedBack(events, last_checkout), at)]

\* every row the page may show for a resident
AttendanceRows(events, resident_id, shelter, at) ==
    LET ids == EventsOf(events, Len(events), resident_id, shelter)
    IN  {AttendanceRow(events, ids, resident_id, le, lc, at) :
            le \in LastByEventTime(events, ids),
            lc \in LastByEventTime(events, OfType(events, ids, "check_out"))}

\* SELECT * FROM residents WHERE shelter = ? AND is_active
ActiveIn(shelter) ==
    {i \in DOMAIN residents : residents[i].shelter = shelter /\ residents[i].is_active}

\* GET /staff/attendance
StaffAttendance(p) ==
    /\ pc[p] = "idle"
    /\ \E rows \in [ActiveIn(staff_session[p].shelter) ->
                       UNION {AttendanceRows(attendance_events, r, staff_session[p].shelter,
                                             utcnow) : r \in ActiveIn(staff_session[p].shelter)}] :
          /\ \A r \in DOMAIN rows :
                rows[r] \in AttendanceRows(attendance_events, r, staff_session[p].shelter,
                                           utcnow)
          /\ attendance_view' = [shelter |-> staff_session[p].shelter, at |-> utcnow,
                                 n_events |-> Len(attendance_events), rows |-> rows]
    /\ trip_view' = NoTripView
    /\ UNCHANGED <<now, page, resident_transfers, dbVars, sms_outbox, twilio_configured, resident_session, staffVars,
                   response, writes, attendance_events>>

\* POST /staff/attendance/<resident_id>/check-in
StaffAttendanceCheckIn(p, resident_id) ==
    /\ pc[p] = "idle"
    /\ Len(attendance_events) < MaxAttendanceEvents
    /\ attendance_events' =
          Append(attendance_events,
                 AttendanceEvent(resident_id, staff_session[p].shelter, "check_in", utcnow_iso,
                                 staff_session[p].staff_user_id, NULL))
    /\ audit_log' = log_action(audit_log, "attendance", resident_id, staff_session[p].shelter,
                               staff_session[p].staff_user_id, "check_in")
    /\ attendance_view' = NoAttendanceView
    /\ trip_view' = NoTripView
    /\ UNCHANGED <<now, page, resident_transfers, residents, leave_requests, transport_requests, sms_outbox,
                   twilio_configured, resident_session, staffVars, response, writes>>

\* datetime.now(ZoneInfo("America/Chicago")) as a naive local wall time
now_chi == utcnow - UtcOffsetHours(utcnow) * 3600 * TicksPerSecond

\* its fold: 1 in the hour that repeats when daylight time ends
now_fold ==
    IF DstEndsUtc <= utcnow /\ utcnow < DstEndsUtc + 3600 * TicksPerSecond THEN 1 ELSE 0

\* local midnight of the local day of t
DayStart(t) == (t \div Days(1)) * Days(1)

\* the expected_back_time field of the staff form: empty, malformed or HH:MM
NoTime == [text |-> "", hh |-> 0, mm |-> 0]
BadTime == [text |-> "garbage", hh |-> 0, mm |-> 0]
HHMM(hh, mm) == [text |-> "hh:mm", hh |-> hh, mm |-> mm]

\* the next local occurrence of HH:MM, as a UTC instant; None when the field is
\* empty or cannot be read
StaffExpectedBack(raw) ==
    IF raw.text # "hh:mm" \/ raw.hh \notin 0..23 \/ raw.mm \notin 0..59 THEN NULL
    ELSE LET local_dt == DayStart(now_chi) + (raw.hh * 3600 + raw.mm * 60) * TicksPerSecond
         IN  WallToUtc(IF local_dt <= now_chi THEN local_dt + Days(1) ELSE local_dt, now_fold)

\* int(rid_raw) of a text of digits
RECURSIVE IntOf(_)
IntOf(s) ==
    IF s = <<>> THEN 0
    ELSE 10 * IntOf(SubSeq(s, 1, Len(s) - 1))
         + (CHOOSE d \in 0..9 : ToString(d) = s[Len(s)])

\* SELECT id FROM residents WHERE id = ? AND shelter = ? AND is_active
ActiveResident(resident_id, shelter) == resident_id \in ActiveIn(shelter)

\* POST /staff/attendance/check-out
StaffAttendanceCheckOut(p, rid_raw, expected_back) ==
    /\ pc[p] = "idle"
    /\ Len(attendance_events) < MaxAttendanceEvents
    /\ IF ~IsDigit(Strip(rid_raw))
         THEN /\ response' = Flash(p, "Select a resident.", "error")
              /\ UNCHANGED <<attendance_events, audit_log>>
         ELSE IF ~ActiveResident(IntOf(Strip(rid_raw)), staff_session[p].shelter)
         THEN /\ response' = Flash(p, "Invalid resident.", "error")
              /\ UNCHANGED <<attendance_events, audit_log>>
         ELSE /\ attendance_events' =
                    Append(attendance_events,
                           AttendanceEvent(IntOf(Strip(rid_raw)), staff_session[p].shelter,
                                           "check_out", utcnow_iso,
                                           staff_session[p].staff_user_id,
                                           StaffExpectedBack(expected_back)))
              /\ audit_log' = log_action(audit_log, "attendance", IntOf(Strip(rid_raw)),
                                         staff_session[p].shelter,
                                         staff_session[p].staff_user_id, "check_out")
              /\ UNCHANGED response
    /\ attendance_view' = NoAttendanceView
    /\ trip_view' = NoTripView
    /\ UNCHANGED <<now, page, resident_transfers, residents, leave_requests, transport_requests, sms_outbox,
                   twilio_configured, resident_session, staffVars, writes>>

\* the expected_back_time field of the kiosk form, a local ISO date-time
KioskExpectedBack(raw) ==
    IF raw.text = "" \/ ParseFails(raw) THEN NULL
    ELSE TruncSecond(LocalToUtc(parse_dt(raw)))

\* POST /kiosk/<shelter>/checkout/<resident_id>/out
KioskCheckoutOut(shelter, resident_id, expected_back) ==
    /\ Len(attendance_events) < MaxAttendanceEvents
    /\ IF shelter \notin ShelterSet
         THEN /\ response' = [NoResponse EXCEPT !.handler = "kiosk", !.status = 404]
              /\ UNCHANGED attendance_events
         ELSE /\ attendance_events' =
                    Append(attendance_events,
                           AttendanceEvent(resident_id, shelter, "check_out", utcnow_iso,
                                           NULL, KioskExpectedBack(expected_back)))
              /\ UNCHANGED response
    /\ attendance_view' = NoAttendanceView
    /\ trip_view' = NoTripView
    /\ UNCHANGED <<now, page, resident_transfers, dbVars, sms_outbox, twilio_configured, resident_session, staffVars,
                   writes>>

\* ------------------------------------------------------------ trip history
\* start: 30 days back when empty, read as local midnight, in UTC
StartUtc(start) ==
    LocalToUtc(IF start.text = "" THEN DayStart(now_chi - Days(30)) ELSE start.day * Days(1))

\* end: today when empty, read as local 23:59:59, in UTC
EndUtc(end) ==
    LocalToUtc((IF end.text = "" THEN DayStart(now_chi) ELSE end.day * Days(1))
               + Days(1) - TicksPerSecond)

\* the orders in which ORDER BY event_time ASC may return the rows ids: rows
\* of equal event_time come in an unspecified order
OrderedByEventTime(events, ids) ==
    {o \in [1..Cardinality(ids) -> ids] :
        /\ \A i, j \in DOMAIN o : i # j => o[i] # o[j]
        /\ \A i, j \in DOMAIN o : i < j => events[o[i]].event_time <= events[o[j]].event_time}

NoTrip == [checked_out_at |-> NULL, expected_back_at |-> NULL, checked_in_at |-> NULL,
           late |-> "None"]

\* slip: a check-in at the expected time counts as late
Late_NotStrict(checked_in_at, expected_back_at) ==
    IF expected_back_at = NULL THEN "None"
    ELSE IF checked_in_at >= expected_back_at THEN "True" ELSE "False"

\* late = parse_dt(tm) > parse_dt(expected_back_at), None without expected_back_at
Late(checked_in_at, expected_back_at) ==
    IF expected_back_at = NULL THEN "None"
    ELSE IF checked_in_at > expected_back_at THEN "True" ELSE "False"

\* the replay loop over the fetched events: e is the next event,
\* current_trip the open trip (NoTrip for None), trip_rows the result so far
RECURSIVE TripRows(_, _, _)
TripRows(evs, current_trip, trip_rows) ==
    IF evs = <<>> THEN trip_rows
    ELSE LET e == Head(evs)
         IN  IF e.event_type = "check_out"
             THEN TripRows(Tail(evs),
                           [NoTrip EXCEPT !.checked_out_at = e.event_time,
                                          !.expected_back_at = e.expected_back_time],
                           trip_rows)
             ELSE IF e.event_type = "check_in" /\ current_trip # NoTrip
             THEN TripRows(Tail(evs), NoTrip,
                           Append(trip_rows,
                                  [current_trip EXCEPT
                                      !.checked_in_at = e.event_time,
                                      !.late = Late(e.event_time,
                                                    current_trip.expected_back_at)]))
             ELSE TripRows(Tail(evs), current_trip, trip_rows)

\* GET /staff/attendance/resident/<resident_id>/print?start=&end=
StaffAttendanceResidentPrint(p, resident_id, start, end) ==
    /\ pc[p] = "idle"
    /\ IF ~(resident_id \in DOMAIN residents
            /\ residents[resident_id].shelter = staff_session[p].shelter)
         THEN /\ response' = Flash(p, "Resident not found for this shelter.", "error")
              /\ trip_view' = NoTripView
         ELSE IF start.text = "garbage" \/ end.text = "garbage"
         THEN /\ response' = Flash(p, "Invalid date range. Use YYYY-MM-DD.", "error")
              /\ trip_view' = NoTripView
         ELSE /\ \E o \in OrderedByEventTime(
                             attendance_events,
                             {i \in EventsOf(attendance_events, Len(attendance_events),
                                            resident_id, staff_session[p].shelter) :
                                 /\ attendance_events[i].event_time >= StartUtc(start)
                                 /\ attendance_events[i].event_time <= EndUtc(end)}) :
                    trip_view' =
                       [resident_id |-> resident_id, n_events |-> Len(attendance_events),
                        replayed |-> o,
                        trip_rows |-> TripRows([k \in DOMAIN o |-> attendance_events[o[k]]],
                                               NoTrip, <<>>)]
              /\ UNCHANGED response
    /\ attendance_view' = NoAttendanceView
    /\ UNCHANGED <<now, page, resident_transfers, dbVars, sms_outbox, twilio_configured, resident_session, staffVars,
                   writes, attendance_events>>

\* ---------------------------------------------------------------- residents
\* POST /staff/residents/<id>/set-active: the UPDATE, then the audit entry
StaffResidentSetActive(p, resident_id, active) ==
    LET shelter == staff_session[p].shelter
        staff_id == staff_session[p].staff_user_id
    IN  /\ CanStart(p)
        /\ started' = started + 1
        /\ IF active \notin {"0", "1"}
             THEN /\ response' = Flash(p, "Invalid action.", "error")
                  /\ UNCHANGED <<residents, audit_log>>
           ELSE /\ residents' =
                      Update(residents, resident_id, InShelter(residents, resident_id, shelter),
                             [residents[resident_id] EXCEPT !.is_active = (active = "1")])
                /\ audit_log' = log_action(audit_log, "resident", resident_id, shelter,
                                           staff_id, "set_active")
                /\ response' = Flash(p, "Updated.", "ok")
        /\ UNCHANGED <<now, leave_requests, transport_requests, sms_outbox, twilio_configured,
                       attVars, resident_session, staff_session, pc, req, rowcount, writes>>

\* range(10): the checks of a candidate code the retry loop makes
CodeChecks == 10

\* SELECT id FROM residents WHERE resident_code = ?
CodeInUse(rows, code) == \E i \in DOMAIN rows : rows[i].resident_code = code

\* the retry loop over the candidates make_resident_code draws, a new one after
\* each check that finds a row: the place of the first checked candidate that
\* no row holds, 0 when each of the CodeChecks checks finds a row
FirstFree(rows, draws) ==
    IF \A k \in 1..CodeChecks : CodeInUse(rows, draws[k]) THEN 0
    ELSE Min({k \in 1..CodeChecks : ~CodeInUse(rows, draws[k])})

\* slip: the table has no unique index
UniqueViolation_NoIndex(rows, id, code) == FALSE

\* residents_resident_code_uq: storing in row id a code another row holds raises
UniqueViolation(rows, id, code) ==
    \E i \in DOMAIN rows : i # id /\ rows[i].resident_code = code

\* an exception leaves the handler
ServerError(p) == [Flash(p, "", "") EXCEPT !.status = 500, !.flashed = <<>>]

\* init_db: SELECT id FROM residents WHERE resident_code IS NULL OR resident_code = ''
WithoutCode(rows) == {i \in DOMAIN rows : rows[i].resident_code \in {NULL_TEXT, <<>>}}

\* where a request goes on after init_db has selected the rows to fill
AfterInitDb(rows, then) == IF rows = {} THEN then ELSE "backfill"

residentsFrame == <<now, dbVars, sms_outbox, twilio_configured, attVars, resident_session,
                    staff_session, rowcount, response, writes>>

\* POST /staff/residents (the role checks pass): init_db() comes first
StaffResidentsPost(p, first, last) ==
    /\ CanStart(p)
    /\ Len(residents) < MaxResidents
    /\ started' = started + 1
    /\ pc' = [pc EXCEPT ![p] = AfterInitDb(WithoutCode(residents), "create")]
    /\ req' = [req EXCEPT ![p] =
                  [NoReq EXCEPT !.shelter = staff_session[p].shelter,
                                !.staff_id = staff_session[p].staff_user_id,
                                !.rows = WithoutCode(residents), !.then = "create",
                                !.first = first, !.last = last]]
    /\ UNCHANGED residentsFrame

\* init_db, for one of the rows selected: the retry loop; the candidate left
\* after the last check is used unchecked, exists being what the last check found
BackfillCheck(p, draws) ==
    /\ pc[p] = "backfill"
    /\ \E rid \in req[p].rows :
          req' = [req EXCEPT ![p].id = rid, ![p].rows = @ \ {rid},
                             ![p].exists = (FirstFree(residents, draws) = 0),
                             ![p].code = IF FirstFree(residents, draws) = 0
                                         THEN draws[CodeChecks + 1]
                                         ELSE draws[FirstFree(residents, draws)]]
    /\ pc' = [pc EXCEPT ![p] = "backfill_update"]
    /\ UNCHANGED <<residentsFrame, started>>

\* init_db: UPDATE residents SET resident_code = ? WHERE id = ?
BackfillUpdate(p) ==
    /\ pc[p] = "backfill_update"
    /\ IF UniqueViolation(residents, req[p].id, req[p].code)
         THEN /\ response' = ServerError(p)
              /\ pc' = [pc EXCEPT ![p] = "idle"]
              /\ req' = [req EXCEPT ![p] = NoReq]
              /\ UNCHANGED residents
       ELSE /\ residents' = [residents EXCEPT ![req[p].id].resident_code = req[p].code]
            /\ pc' = [pc EXCEPT ![p] = AfterInitDb(req[p].rows, req[p].then)]
            /\ UNCHANGED <<response, req>>
    /\ UNCHANGED <<now, leave_requests, transport_requests, audit_log, sms_outbox,
                   twilio_configured, attVars, resident_session, staff_session, rowcount,
                   writes, started>>

\* POST /staff/residents: the name check, then the retry loop with its else branch
CreateCheck(p, draws) ==
    /\ pc[p] = "create"
    /\ IF req[p].first = "" \/ req[p].last = ""
         THEN /\ response' = Flash(p, "First name and last name are required.", "error")
              /\ pc' = [pc EXCEPT ![p] = "idle"]
              /\ req' = [req EXCEPT ![p] = NoReq]
       ELSE IF FirstFree(residents, draws) = 0
         THEN /\ response' = Flash(p, "Could not generate a unique Resident Code. Try again.",
                                   "error")
              /\ pc' = [pc EXCEPT ![p] = "idle"]
              /\ req' = [req EXCEPT ![p] = NoReq]
       ELSE /\ req' = [req EXCEPT ![p].code = draws[FirstFree(residents, draws)]]
            /\ pc' = [pc EXCEPT ![p] = "create_insert"]
            /\ UNCHANGED response
    /\ UNCHANGED <<now, dbVars, sms_outbox, twilio_configured, attVars, resident_session,
                   staff_session, rowcount, writes, started>>

\* ... INSERT INTO residents, with a token drawn for resident_identifier, then
\* log_action and the flash
CreateInsert(p, token) ==
    /\ pc[p] = "create_insert"
    /\ IF UniqueViolation(residents, NULL, req[p].code)
         THEN /\ response' = ServerError(p)
              /\ UNCHANGED <<residents, audit_log>>
       ELSE /\ residents' =
                  Append(residents,
                         [shelter |-> req[p].shelter, resident_identifier |-> token,
                          resident_code |-> req[p].code, first_name |-> req[p].first,
                          last_name |-> req[p].last, phone |-> <<>>, is_active |-> TRUE])
            /\ audit_log' = log_action(audit_log, "resident", NULL, req[p].shelter,
                                       req[p].staff_id, "create")
            /\ response' = Flash(p, "Resident added.", "ok")
    /\ pc' = [pc EXCEPT ![p] = "idle"]
    /\ req' = [req EXCEPT ![p] = NoReq]
    /\ UNCHANGED <<now, leave_requests, transport_requests, sms_outbox, twilio_configured,
                   attVars, resident_session, staff_session, rowcount, writes, started>>

\* POST /staff/residents/<id>/transfer (the role check passes): init_db() first
StaffResidentTransfer(p, resident_id, to_shelter) ==
    /\ CanStart(p)
    /\ Len(attendance_events) < MaxAttendanceEvents
    /\ started' = started + 1
    /\ pc' = [pc EXCEPT ![p] = AfterInitDb(WithoutCode(residents), "transfer")]
    /\ req' = [req EXCEPT ![p] =
                  [NoReq EXCEPT !.staff_id = staff_session[p].staff_user_id,
                                !.rows = WithoutCode(residents), !.then = "transfer",
                                !.resident_id = resident_id, !.to_shelter = to_shelter]]
    /\ UNCHANGED residentsFrame

\* UPDATE ... SET shelter = ? WHERE shelter = ? AND resident_identifier = ? AND status = 'pending'
MovePending(rows, from_shelter, to_shelter, resident_identifier) ==
    [i \in DOMAIN rows |->
        IF /\ rows[i].shelter = from_shelter
           /\ rows[i].resident_identifier = resident_identifier
           /\ rows[i].status = "pending"
        THEN [rows[i] EXCEPT !.shelter = to_shelter]
        ELSE rows[i]]

\* ... the resident is fetched by id alone; the transfer is recorded and
\* logged, the resident checked out of the old shelter, the pending requests
\* moved and the resident's shelter set
TransferResident(p) ==
    LET resident_id == req[p].resident_id
        to_shelter == req[p].to_shelter
        from_shelter == residents[resident_id].shelter
    IN  /\ pc[p] = "transfer"
        /\ IF resident_id \notin DOMAIN residents
             THEN /\ response' = Flash(p, "Resident not found.", "error")
                  /\ UNCHANGED <<dbVars, resident_transfers, attendance_events>>
           ELSE IF to_shelter \notin ShelterSet
             THEN /\ response' = Flash(p, "Select a valid shelter.", "error")
                  /\ UNCHANGED <<dbVars, resident_transfers, attendance_events>>
           ELSE IF to_shelter = from_shelter
             THEN /\ response' = Flash(p, "Resident is already at that shelter.", "error")
                  /\ UNCHANGED <<dbVars, resident_transfers, attendance_events>>
           ELSE /\ resident_transfers' =
                      Append(resident_transfers,
                             [resident_id |-> resident_id, from_shelter |-> from_shelter,
                              to_shelter |-> to_shelter, transferred_by |-> req[p].staff_id])
                /\ audit_log' = log_action(audit_log, "resident", resident_id, from_shelter,
                                           req[p].staff_id, "resident_transfer")
                /\ attendance_events' =
                      Append(attendance_events,
                             AttendanceEvent(resident_id, from_shelter, "check_out", utcnow_iso,
                                             req[p].staff_id, NULL))
                /\ leave_requests' =
                      MovePending(leave_requests, from_shelter, to_shelter,
                                  residents[resident_id].resident_identifier)
                /\ transport_requests' =
                      MovePending(transport_requests, from_shelter, to_shelter,
                                  residents[resident_id].resident_identifier)
                /\ residents' = [residents EXCEPT ![resident_id].shelter = to_shelter]
                /\ response' = Flash(p, "Resident transferred.", "ok")
        /\ attendance_view' = NoAttendanceView
        /\ trip_view' = NoTripView
        /\ pc' = [pc EXCEPT ![p] = "idle"]
        /\ req' = [req EXCEPT ![p] = NoReq]
        /\ UNCHANGED <<now, page, sms_outbox, twilio_configured, resident_session, staff_session,
                       rowcount, writes, started>>

\* -------------------------------------------------------------- send_sms
\* a call send_sms(to_number, message), provider_ok being the outcome of the
\* provider's call
SendSms(to_number, message, provider_ok) ==
    /\ Len(sms_outbox) < MaxSms
    /\ sms_outbox' = send_sms(sms_outbox, to_number, message, provider_ok)
    /\ UNCHANGED <<now, dbVars, twilio_configured, attVars, resident_session, staffVars,
                   response, writes>>

\* ------------------------------------------------------------- leave lists
\* everything a list page leaves alone
listFrame == <<now, resident_transfers, dbVars, sms_outbox, twilio_configured, attendance_events, attendance_view,
               trip_view, resident_session, staffVars, response, writes>>

\* the clock moves on to one of the given instants
Elapse(instants) ==
    /\ \E t \in instants : t > now /\ now' = t
    /\ UNCHANGED <<dbVars, sms_outbox, twilio_configured, attVars, resident_session, staffVars,
                   response, writes>>

\* the orders in which ORDER BY column ASC may return the rows ids: rows equal
\* in that column come in an unspecified order
OrderedBy(rows, ids, column) ==
    {o \in [1..Cardinality(ids) -> ids] :
        /\ \A i, j \in DOMAIN o : i # j => o[i] # o[j]
        /\ \A i, j \in DOMAIN o : i < j => rows[o[i]][column] <= rows[o[j]][column]}

\* GET /staff/leave/pending: ORDER BY submitted_at DESC
StaffLeavePending(p) ==
    /\ pc[p] = "idle" /\ staff_session[p].shelter # ""
    /\ \E o \in OrderedBy(leave_requests,
                           {i \in DOMAIN leave_requests :
                               /\ leave_requests[i].status = "pending"
                               /\ leave_requests[i].shelter = staff_session[p].shelter},
                           "submitted_at") :
          page' = [handler |-> "staff_leave_pending", shelter |-> staff_session[p].shelter,
                   day |-> NoDay, at |-> utcnow, seen |-> leave_requests,
                   rows |-> [i \in DOMAIN o |-> o[Len(o) + 1 - i]]]
    /\ UNCHANGED listFrame

\* slip: a leave that starts this very second is not yet away
AwayNowWhere_Strict(row, shelter, at) ==
    /\ row.status = "approved" /\ row.shelter = shelter
    /\ row.leave_at < at /\ row.check_in_at = NULL

\* WHERE status = 'approved' AND shelter = ? AND leave_at <= ? AND check_in_at IS NULL
AwayNowWhere(row, shelter, at) ==
    /\ row.status = "approved" /\ row.shelter = shelter
    /\ row.leave_at <= at /\ row.check_in_at = NULL

\* GET /staff/leave/away-now
StaffLeaveAwayNow(p) ==
    /\ pc[p] = "idle" /\ staff_session[p].shelter # ""
    /\ \E o \in OrderedBy(leave_requests,
                           {i \in DOMAIN leave_requests :
                               AwayNowWhere(leave_requests[i], staff_session[p].shelter,
                                            utcnow_iso)},
                           "return_at") :
          page' = [handler |-> "staff_leave_away_now", shelter |-> staff_session[p].shelter,
                   day |-> NoDay, at |-> utcnow, seen |-> leave_requests, rows |-> o]
    /\ UNCHANGED listFrame

\* WHERE status = 'approved' AND shelter = ? AND check_in_at IS NULL
OverdueWhere(row, shelter) ==
    row.status = "approved" /\ row.shelter = shelter /\ row.check_in_at = NULL

\* rt_local.replace(hour=22, minute=0, second=0, microsecond=0): 22:00 on the
\* local date of return_at, return_at being read as UTC; an instant of the
\* local clock
CutoffLocal(return_at) ==
    DayStart(return_at - UtcOffsetHours(return_at) * 3600 * TicksPerSecond)
       + 22 * 3600 * TicksPerSecond

\* slip: overdue from the cutoff on
PastCutoff_NotStrict(row) == row.return_at # NULL /\ now_chi >= CutoffLocal(row.return_at)

\* the loop body: a row without return_at is skipped, one past its cutoff kept
PastCutoff(row) == row.return_at # NULL /\ now_chi > CutoffLocal(row.return_at)

\* GET /staff/leave/overdue
StaffLeaveOverdue(p) ==
    /\ pc[p] = "idle" /\ staff_session[p].shelter # ""
    /\ \E o \in OrderedBy(leave_requests,
                           {i \in DOMAIN leave_requests :
                               OverdueWhere(leave_requests[i], staff_session[p].shelter)},
                           "return_at") :
          page' = [handler |-> "staff_leave_overdue", shelter |-> staff_session[p].shelter,
                   day |-> NoDay, at |-> utcnow, seen |-> leave_requests,
                   rows |-> SelectSeq(o, LAMBDA i : PastCutoff(leave_requests[i]))]
    /\ UNCHANGED listFrame

\* -------------------------------------------------------- transport lists
\* WHERE shelter = ? AND status IN ('pending', 'scheduled')
TransportListed(row, shelter) ==
    row.shelter = shelter /\ row.status \in {"pending", "scheduled"}

\* dt.strftime("%Y-%m-%d") == day: the date of needed_at as stored, in UTC,
\* against the day asked for
OnDay(row, day) == Day(parse_dt(IsoDate(row.needed_at)) \div Days(1)) = day

\* GET /staff/transport/board?date=: without a date every row is listed
StaffTransportBoard(p, day) ==
    /\ pc[p] = "idle" /\ staff_session[p].shelter # ""
    /\ \E o \in OrderedBy(transport_requests,
                           {i \in DOMAIN transport_requests :
                               TransportListed(transport_requests[i], staff_session[p].shelter)},
                           "needed_at") :
          page' = [handler |-> "staff_transport_board", shelter |-> staff_session[p].shelter,
                   day |-> day, at |-> utcnow, seen |-> transport_requests,
                   rows |-> IF day.text = "" THEN o
                            ELSE SelectSeq(o, LAMBDA i : OnDay(transport_requests[i], day))]
    /\ UNCHANGED listFrame

\* GET /staff/transport/print?date=: without a date, the date of utcnow()
StaffTransportPrint(p, day) ==
    /\ pc[p] = "idle" /\ staff_session[p].shelter # ""
    /\ \E o \in OrderedBy(transport_requests,
                           {i \in DOMAIN transport_requests :
                               TransportListed(transport_requests[i], staff_session[p].shelter)},
                           "needed_at") :
          page' = [handler |-> "staff_transport_print", shelter |-> staff_session[p].shelter,
                   day |-> day, at |-> utcnow, seen |-> transport_requests,
                   rows |-> SelectSeq(o, LAMBDA i :
                                OnDay(transport_requests[i],
                                      IF day.text = "" THEN Day(utcnow \div Days(1)) ELSE day))]
    /\ UNCHANGED listFrame

\* ------------------------------------------------------------------ inputs
SigninShelters == {"Abba", "Elsewhere"}
SigninCodes == {Code1, <<"1", "2", "3">>}
StaffShelters == {"Abba", "Haven", "Elsewhere"}

Notes == {<<>>, <<" ">>, <<"o", "k">>}
DriverNames == {<<>>, <<"J", "o">>}
LeaveIds == 1..MaxLeaveRequests
TransportIds == 1..MaxTransportRequests

LeaveForm(phone, destination, leave_at, return_at, agreed) ==
    [resident_phone |-> phone, destination |-> destination, leave_at |-> leave_at,
     return_at |-> return_at, agreed |-> agreed]

\* forms used while staff requests interleave: one good, one without agreement
T0 == 4 * TicksPerSecond
GoodLeaveForm == LeaveForm(Phone10, <<"x">>, IsoDate(0), IsoDate(T0), TRUE)
StaffLeaveForms == {GoodLeaveForm, [GoodLeaveForm EXCEPT !.agreed = FALSE]}

GoodTransportForm ==
    [needed_at |-> IsoDate(T0), pickup_location |-> <<"a">>, destination |-> <<"b">>]
TransportForms == {GoodTransportForm, [GoodTransportForm EXCEPT !.destination = <<>>]}

\* ---------------------------------------------------------- specification
\* the leave request machine: residents submit, two staff act concurrently
Next ==
    \/ Tick
    \/ \E sh \in SigninShelters, code \in SigninCodes : ResidentSignin(sh, code)
    \/ \E form \in StaffLeaveForms : ResidentLeave(form)
    \/ \E p \in Staff :
          \/ \E sh \in StaffShelters : StaffSelectShelter(p, sh)
          \/ \E id \in LeaveIds, note \in Notes : StaffLeaveApprove(p, id, note)
          \/ ApproveUpdate(p)
          \/ ApproveLog(p)
          \/ \E ok \in BOOLEAN : ApproveNotify(p, ok)
          \/ \E id \in LeaveIds, note \in Notes : StaffLeaveDeny(p, id, note)
          \/ DenyLog(p)
          \/ \E id \in LeaveIds : StaffLeaveCheckIn(p, id)
          \/ CheckInLog(p)

Spec == Init /\ [][Next]_vars

\* leave and transport requests together, every form and note well-formed
NextRequests ==
    \/ ResidentSignin("Abba", Code1)
    \/ ResidentLeave(GoodLeaveForm)
    \/ ResidentTransport(GoodTransportForm)
    \/ \E p \in Staff :
          \/ \E id \in LeaveIds : StaffLeaveApprove(p, id, <<>>)
          \/ ApproveUpdate(p)
          \/ ApproveLog(p)
          \/ \E ok \in BOOLEAN : ApproveNotify(p, ok)
          \/ \E id \in LeaveIds : StaffLeaveDeny(p, id, <<"o", "k">>)
          \/ DenyLog(p)
          \/ \E id \in LeaveIds : StaffLeaveCheckIn(p, id)
          \/ CheckInLog(p)
          \/ \E id \in TransportIds : StaffTransportSchedule(p, id, <<"J", "o">>, <<>>)
          \/ ScheduleLog(p)

SpecRequests == Init /\ [][NextRequests]_vars

\* leave submission alone, over every shape of form
T1 == T0 + 1
SubmitPhones == {<<>>, <<" ">>, Phone10}
SubmitDestinations == {<<>>, <<"x">>}
SubmitLeaveAts == {EmptyDate, BadDate, IsoDate(T0), IsoDate(T1)}
ReturnOffsets ==
    {-1, 0, 1, TicksPerSecond, Days(MAX_LEAVE_DAYS) - 1, Days(MAX_LEAVE_DAYS),
     Days(MAX_LEAVE_DAYS) + 1, Days(MAX_LEAVE_DAYS) + TicksPerSecond}
SubmitReturnAts ==
    {EmptyDate, BadDate} \cup {IsoDate(l + d) : l \in {T0, T1}, d \in ReturnOffsets}
SubmitForms ==
    {LeaveForm(ph, dest, l, r, a) :
        ph \in SubmitPhones, dest \in SubmitDestinations, l \in SubmitLeaveAts,
        r \in SubmitReturnAts, a \in BOOLEAN}

NextSubmit ==
    \/ Tick
    \/ \E sh \in {"Abba", "Haven", "Elsewhere"}, code \in SigninCodes \cup {Code2} :
          ResidentSignin(sh, code)
    \/ \E form \in SubmitForms : ResidentLeave(form)

SpecSubmit == Init /\ [][NextSubmit]_vars

\* attendance: check-outs and check-ins by staff and kiosk, the attendance page
\* and the trip print
AttendanceResidentIds == {1, 2}
RidRaws == {<<>>, <<"1">>, <<"2">>}
StaffExpectedBacks == {NoTime, BadTime, HHMM(18, 1)}
KioskExpectedBacks ==
    {EmptyDate, IsoDate(TicksPerSecond - ChicagoOffsetHours * 3600 * TicksPerSecond)}
KioskShelters == {"Abba", "Elsewhere"}
PrintStarts == {NoDay, BadDay, Day(0)}

NextAttendance ==
    \/ Advance(MaxAttendanceNow)
    \/ \E sh \in KioskShelters, eb \in KioskExpectedBacks : KioskCheckoutOut(sh, 1, eb)
    \/ \E rid \in AttendanceResidentIds : StaffAttendanceCheckIn(2, rid)
    \/ \E rid_raw \in RidRaws, eb \in StaffExpectedBacks : StaffAttendanceCheckOut(1, rid_raw, eb)
    \/ \E p \in Staff : StaffAttendance(p)
    \/ \E rid \in AttendanceResidentIds, start \in PrintStarts :
          StaffAttendanceResidentPrint(1, rid, start, NoDay)

SpecAttendance == Init /\ [][NextAttendance]_vars

\* the leave lists: staff of two shelters read the lists, at instants around a
\* 22:00 local cutoff, over tables the leave handlers can have produced
Hours(h) == h * 3600 * TicksPerSecond
LeaveWindows ==
    {<<Hours(1), Hours(2)>>, <<Hours(4) + Hours(1) \div 2, Hours(5)>>, <<Hours(5), Hours(7)>>}
ListedLeaveRows ==
    LET pending(k, w) ==
            NewLeaveRequest(InitResidents[k].shelter, InitResidents[k].resident_identifier,
                            InitResidents[k].first_name, InitResidents[k].last_name,
                            <<>>, <<"x">>, w[1], w[2], 0)
        approved(row) == ApproveSet(row, 0, 1, <<>>)
        checked_in(row) == CheckInSet(row, 0, 1)
    IN  UNION {{pending(k, w), approved(pending(k, w)), DenySet(pending(k, w), 0, 1, <<"n">>),
                checked_in(approved(pending(k, w))),
                approved(checked_in(approved(pending(k, w))))} :
               k \in DOMAIN InitResidents, w \in LeaveWindows}
LeaveTables == UNION {[1..n -> ListedLeaveRows] : n \in 0..MaxListedRows}
ListInstants == {3600, 3 * 3600, 4 * 3600, 4 * 3600 + 1, 6 * 3600}

\* the state after construction, with tables filled by earlier requests and
\* each staff member in a shelter of their own
InitWith(resident_table, leave_table, transport_table) ==
    /\ now = 0
    /\ residents = resident_table
    /\ leave_requests = leave_table
    /\ transport_requests = transport_table
    /\ audit_log = <<>>
    /\ sms_outbox = <<>>
    /\ twilio_configured = FALSE
    /\ resident_session = NoResidentSession
    /\ staff_session = [p \in Staff |-> [staff_user_id |-> p, shelter |-> SHELTERS[p]]]
    /\ pc = [p \in Staff |-> "idle"]
    /\ req = [p \in Staff |-> NoReq]
    /\ rowcount = [p \in Staff |-> NULL]
    /\ response = NoResponse
    /\ started = 0
    /\ writes = [k \in {"approve", "deny", "check_in", "schedule"} |-> <<>>]
    /\ attendance_events = <<>>
    /\ attendance_view = NoAttendanceView
    /\ trip_view = NoTripView
    /\ page = NoPage
    /\ resident_transfers = <<>>

NextLeaveLists ==
    \/ Elapse(ListInstants)
    \/ \E p \in Staff : StaffLeaveAwayNow(p)
    \/ \E p \in Staff : StaffLeaveOverdue(p)

SpecLeaveLists == (\E t \in LeaveTables : InitWith(InitResidents, t, <<>>)) /\ [][NextLeaveLists]_vars

\* the transport lists: staff of two shelters ask for the board and the print
\* of a day, over tables the transport handlers can have produced; the rides
\* are needed at 20:00 of the local day before day 0, and at 01:00 and 23:00
\* of local day 0
NeededAts == {Hours(2), Hours(7), Hours(29)}
ListedTransportRows ==
    LET pending(k, t) ==
            NewTransportRequest(InitResidents[k].shelter, InitResidents[k].resident_identifier,
                                InitResidents[k].first_name, InitResidents[k].last_name,
                                t, <<"a">>, <<"b">>, 0)
    IN  UNION {{pending(k, t), ScheduleSet(pending(k, t), 0, 1, <<"J", "o">>, <<>>)} :
               k \in DOMAIN InitResidents, t \in NeededAts}
TransportTables == UNION {[1..n -> ListedTransportRows] : n \in 0..MaxListedRows}
BoardDays == {NoDay, BadDay, Day(0), Day(1)}

NextTransportLists ==
    \/ Elapse({25 * 3600})
    \/ \E p \in Staff, day \in BoardDays : StaffTransportBoard(p, day)
    \/ \E p \in Staff, day \in BoardDays : StaffTransportPrint(p, day)

SpecTransportLists ==
    (\E t \in TransportTables : InitWith(InitResidents, <<>>, t)) /\ [][NextTransportLists]_vars

\* the resident's door: sign-in with codes of every shape, the consent page,
\* a leave form sent in, logout, while staff of Abba switch residents off and on
DoorShelters == {"Abba", "Haven", "Elsewhere"}
DoorCodes ==
    {Code1, Code2, <<" ">> \o Code1, <<"1", "2", "3">>, <<"1", "0", "0", "0", "0", "0", "0", "x">>}
NextUrls == {<<>>, <<"/", "t">>, <<"h", "/">>}
Choices == {"accept", "decline", " Accept", "DECLINE", "later", ""}
UnsignedLeaveForm == LeaveForm(<<>>, <<"x">>, IsoDate(0), IsoDate(T0), FALSE)

NextDoor ==
    \/ \E sh \in DoorShelters, code \in DoorCodes, next \in NextUrls :
          ResidentSigninTo(sh, code, next)
    \/ \E choice \in Choices, next \in NextUrls : ResidentConsent(choice, next)
    \/ ResidentLeave(UnsignedLeaveForm)
    \/ ResidentLogout
    \/ \E rid \in DOMAIN InitResidents, active \in {"0", "1", ""} :
          StaffResidentSetActive(1, rid, active)

SpecDoor == Init /\ [][NextDoor]_vars

\* the residents table: a row of an older database has no code yet; staff of
\* two shelters add residents and transfer them, the codes being drawn from a
\* pool so small that draws collide
Code3 == <<"3", "0", "0", "0", "0", "0", "0", "3">>
Code4 == <<"4", "0", "0", "0", "0", "0", "0", "4">>
LegacyResident ==
    [shelter |-> "Abba", resident_identifier |-> "R-0", resident_code |-> NULL_TEXT,
     first_name |-> "Old", last_name |-> "Row", phone |-> <<>>, is_active |-> TRUE]
DrawSeqs ==
    {[k \in 1..(CodeChecks + 1) |-> IF k <= n THEN Code1 ELSE c] :
        n \in {0, CodeChecks - 1, CodeChecks}, c \in {Code2, Code3, Code4}}

NextResidents ==
    \/ \E p \in Staff, first \in {"", "Cy"} : StaffResidentsPost(p, first, "Doe")
    \/ \E p \in Staff, draws \in DrawSeqs : BackfillCheck(p, draws)
    \/ \E p \in Staff : BackfillUpdate(p)
    \/ \E p \in Staff, draws \in DrawSeqs : CreateCheck(p, draws)
    \/ \E p \in Staff, token \in {"R-8", "R-9"} : CreateInsert(p, token)
    \/ \E p \in Staff, rid \in 1..MaxResidents, to \in DoorShelters :
          StaffResidentTransfer(p, rid, to)
    \/ \E p \in Staff : TransferResident(p)

SpecResidents ==
    InitWith(Append(InitResidents, LegacyResident), <<>>, <<>>) /\ [][NextResidents]_vars

\* the transport request machine: a resident asks for a ride, two staff
\* schedule it with and without a driver name, and the resident is transferred
BlankDriverNames == {<<>>, <<" ">>, <<"J", "o">>}

NextTransport ==
    \/ Tick
    \/ ResidentSignin("Abba", Code1)
    \/ \E form \in TransportForms : ResidentTransport(form)
    \/ \E p \in Staff, id \in TransportIds, driver \in BlankDriverNames, notes \in Notes :
          StaffTransportSchedule(p, id, driver, notes)
    \/ \E p \in Staff : ScheduleLog(p)
    \/ StaffResidentTransfer(1, 1, "Haven")
    \/ TransferResident(1)

SpecTransport == Init /\ [][NextTransport]_vars

\* send_sms alone, over phone numbers of every shape a leave form can have
\* stored: ten digits, eleven digits with and without a leading 1, with a
\* leading plus, too short, and with punctuation
Text(digits) == [i \in DOMAIN digits |-> CASE digits[i] = 0 -> "0" [] digits[i] = 1 -> "1"
                                             [] digits[i] = 2 -> "2" [] digits[i] = 3 -> "3"
                                             [] digits[i] = 4 -> "4" [] digits[i] = 5 -> "5"
                                             [] digits[i] = 6 -> "6" [] digits[i] = 7 -> "7"
                                             [] digits[i] = 8 -> "8" [] OTHER -> "9"]
TenDigits == Text(<<5, 5, 5, 1, 2, 3, 4, 5, 6, 7>>)
PhoneInputs ==
    {TenDigits, <<"1">> \o TenDigits, <<"2">> \o TenDigits,
     <<"+">> \o Text(<<4, 4, 2, 0, 7, 1, 8, 3, 8, 7, 5, 0>>), Text(<<1, 2, 3>>),
     <<"(">> \o Text(<<8, 0, 6>>) \o <<")", " ">> \o Text(<<5, 5, 5>>) \o <<"-">>
        \o Text(<<0, 1, 0, 0>>),
     <<"+", "1", "-">> \o Text(<<8, 0, 6>>), <<"1", "-">> \o TenDigits \o <<"x">>}
AnnsLeave == ApprovalMessage(1, [first_name |-> "Ann", last_name |-> "Lee"])

NextSms == \E to_number \in PhoneInputs, ok \in BOOLEAN : SendSms(to_number, AnnsLeave, ok)

SpecSms == Init /\ [][NextSms]_vars

\* ================================================================== claims
Count(seq, P(_)) == Cardinality({i \in DOMAIN seq : P(seq[i])})

LegalStatusChanges ==
    {<<"pending", "approved">>, <<"pending", "denied">>, <<"approved", "checked_in">>}

\* C1: under every interleaving of submit, approve, deny and check-in, the
\* status of a leave request changes only along pending->approved,
\* pending->denied and approved->checked_in, so a denied or checked_in request
\* never changes status again.
C1_OnlyLegalStatusChanges ==
    [][\A i \in DOMAIN leave_requests :
          leave_requests'[i].status # leave_requests[i].status
          => <<leave_requests[i].status, leave_requests'[i].status>> \in LegalStatusChanges]_vars

\* C2: of the approve requests for one leave request exactly one takes effect:
\* the row is updated by at most one of them, at most one (leave, approve)
\* audit entry is written and at most one approval SMS is handed over.
C2_ApproveTakesEffectOnce ==
    \A id \in DOMAIN leave_requests :
        /\ Count(writes["approve"], LAMBDA w : w = id) <= 1
        /\ Count(audit_log, LAMBDA e : e.entity_type = "leave" /\ e.entity_id = id
                                       /\ e.action_type = "approve") <= 1
        /\ Count(sms_outbox, LAMBDA m : m.body.leave_id = id) <= 1

\* the row an approve request names is missing from the staff member's shelter
\* or is no longer pending
NotPendingFor(p, id) ==
    \/ id \notin DOMAIN leave_requests
    \/ leave_requests[id].shelter # staff_session[p].shelter
    \/ leave_requests[id].status \in {"approved", "denied", "checked_in"}

\* C3: an approve request that finds the row approved, denied, checked_in or
\* absent from the staff member's shelter is answered "Not pending." and ends
\* there: the row, the audit trail and the SMS outbox are left as they were.
C3_ApproveOnNonPendingRejected ==
    [][\A p \in Staff, id \in LeaveIds, note \in Notes :
          (StaffLeaveApprove(p, id, note) /\ NotPendingFor(p, id))
          => /\ response' = Flash(p, "Not pending.", "error")
             /\ pc'[p] = "idle"
             /\ UNCHANGED <<leave_requests, audit_log, sms_outbox>>]_vars

\* C3 witness: staff were told "Not pending." about a request that is denied
\* in their own shelter.
C3_Witness ==
    \E p \in Staff :
        /\ response = Flash(p, "Not pending.", "error")
        /\ pc[p] = "idle"
        /\ Len(leave_requests) >= 1
        /\ leave_requests[1].status = "denied"
        /\ leave_requests[1].shelter = staff_session[p].shelter

\* C4: a deny, check-in or transport-schedule request whose UPDATE affected
\* zero rows is never answered as a success.
C4_StaleNeverReportedSuccess ==
    [][\A p \in Staff :
          (/\ pc[p] \in {"deny_log", "check_in_log", "schedule_log"}
           /\ pc'[p] = "idle"
           /\ rowcount[p] = 0)
          => ~(response'.to = p /\ response'.category = "ok")]_vars

\* C5: deny, check-in and transport-schedule each change a given row at most
\* once over the whole execution, however the requests overlap.
C5_AtMostOnceTransitions ==
    /\ \A id \in DOMAIN leave_requests :
          /\ Count(writes["deny"], LAMBDA w : w = id) <= 1
          /\ Count(writes["check_in"], LAMBDA w : w = id) <= 1
    /\ \A id \in DOMAIN transport_requests :
          Count(writes["schedule"], LAMBDA w : w = id) <= 1

\* C5 witness: two deny requests for the same row are in flight together, one
\* having updated the row and the other having matched nothing.
C5_Witness ==
    /\ pc[1] = "deny_log" /\ pc[2] = "deny_log"
    /\ req[1].id = req[2].id
    /\ {rowcount[1], rowcount[2]} = {0, 1}

\* C6: a deny request whose note is empty or blank changes neither the row
\* nor the audit trail; a deny request with a note on a pending request of the
\* staff member's shelter sets status, decided_at, decided_by and decision_note.
C6_DenyNeedsNote ==
    [][\A p \in Staff, id \in LeaveIds, note \in Notes :
          StaffLeaveDeny(p, id, note)
          => IF note \in {<<>>, <<" ">>}
             THEN /\ UNCHANGED <<leave_requests, audit_log>>
                  /\ pc'[p] = "idle"
                  /\ response' = Flash(p, "Denial note required.", "error")
             ELSE (/\ id \in DOMAIN leave_requests
                   /\ leave_requests[id].status = "pending"
                   /\ leave_requests[id].shelter = staff_session[p].shelter)
                  => /\ leave_requests'[id].status = "denied"
                     /\ leave_requests'[id].decided_at = now * TicksPerSecond
                     /\ leave_requests'[id].decided_by = staff_session[p].staff_user_id
                     /\ leave_requests'[id].decision_note = note]_vars

\* C6 witness: a deny without a note was turned away while the request is
\* still pending and nothing about it has been logged.
C6_Witness ==
    \E p \in Staff :
        /\ response = Flash(p, "Denial note required.", "error")
        /\ Len(leave_requests) >= 1
        /\ leave_requests[1].status = "pending"
        /\ Count(audit_log, LAMBDA e : e.action_type = "deny") = 0

\* C7: check_in_at, check_in_by and the move to checked_in are written only
\* on a row that is approved with check_in_at null; a check-in applied to any
\* other row leaves it as it was.
C7_CheckInOnlyFromApproved ==
    [][\A i \in DOMAIN leave_requests :
          (\/ leave_requests'[i].check_in_at # leave_requests[i].check_in_at
           \/ leave_requests'[i].check_in_by # leave_requests[i].check_in_by
           \/ (leave_requests'[i].status = "checked_in"
               /\ leave_requests[i].status # "checked_in"))
          => /\ leave_requests[i].status = "approved"
             /\ leave_requests[i].check_in_at = NULL]_vars

\* C7 witness: a second check-in was applied to a request already checked in
\* and matched no row.
C7_Witness ==
    \E p \in Staff :
        /\ pc[p] = "check_in_log"
        /\ rowcount[p] = 0
        /\ req[p].id \in DOMAIN leave_requests
        /\ leave_requests[req[p].id].status = "checked_in"
        /\ leave_requests[req[p].id].check_in_at # NULL
        /\ leave_requests[req[p].id].shelter = req[p].shelter

\* a leave submission was turned away with validation errors
Rejected(resp) == resp.to = Resident /\ resp.handler = "leave" /\ resp.status = 400

\* a leave submission was accepted
Accepted(resp) == resp.to = Resident /\ resp.handler = "leave" /\ resp.status = 200

\* a step in which resident_leave answered a POST; its form is
\* response'.form (a step of resident_leave that repeats the response already
\* on record repeats a rejected form and changes nothing)
LeaveAnswered == response' # response /\ response'.to = Resident /\ response'.handler = "leave"

\* C8: a leave submission that fails validation leaves the store as it was:
\* no leave_requests row, no audit entry, no change to a residents row.
C8_RejectedSubmissionWritesNothing ==
    [][(LeaveAnswered /\ Rejected(response'))
          => UNCHANGED <<residents, leave_requests, audit_log>>]_vars

\* leave_at < return_at <= leave_at + 7 days
WindowOk(leave_at, return_at) ==
    leave_at < return_at /\ return_at <= leave_at + Days(MAX_LEAVE_DAYS)

\* C9: with the other fields valid a submission is accepted iff
\* leave_at < return_at <= leave_at + 7 days, a longer leave being turned away
\* with the maximum-days error, and so every stored leave request satisfies
\* leave_at < return_at <= leave_at + 7 days.
C9_LeaveWindow ==
    /\ [][(/\ LeaveAnswered
           /\ response'.status \in {200, 400}
           /\ response'.form.agreed
           /\ response'.form.resident_phone = Phone10
           /\ response'.form.destination = <<"x">>
           /\ response'.form.leave_at.text = "iso"
           /\ response'.form.return_at.text = "iso")
          => /\ Accepted(response')
                <=> WindowOk(response'.form.leave_at.t, response'.form.return_at.t)
             /\ response'.form.return_at.t
                   > response'.form.leave_at.t + Days(MAX_LEAVE_DAYS)
                => /\ Rejected(response')
                   /\ response'.flashed = <<"Maximum leave is 7 days.">>]_vars
    /\ [](\A i \in DOMAIN leave_requests :
             WindowOk(leave_requests[i].leave_at, leave_requests[i].return_at))

\* C10: a submission is accepted only with the agreement flag set and every
\* required field filled in; an accepted submission appends exactly one
\* leave request (pending, submitted_at set, decided_at and check_in_at null)
\* and exactly one (leave, create) audit entry naming it, and nothing else
\* adds a leave request.
C10_AcceptedSubmissionCreatesOne ==
    [][/\ Len(leave_requests') # Len(leave_requests)
          => (LeaveAnswered /\ Accepted(response'))
       /\ (LeaveAnswered /\ Accepted(response'))
          => /\ response'.form.agreed
             /\ response'.form.resident_phone \notin {<<>>, <<" ">>}
             /\ response'.form.destination # <<>>
             /\ response'.form.leave_at.text # ""
             /\ response'.form.return_at.text # ""
             /\ resident_session.resident_first # ""
             /\ resident_session.resident_last # ""
             /\ Len(leave_requests') = Len(leave_requests) + 1
             /\ SubSeq(leave_requests', 1, Len(leave_requests)) = leave_requests
             /\ response'.request_id = Len(leave_requests')
             /\ LET row == leave_requests'[Len(leave_requests')]
                IN  /\ row.status = "pending"
                    /\ row.submitted_at = now * TicksPerSecond
                    /\ row.decided_at = NULL
                    /\ row.check_in_at = NULL
                    /\ row.shelter = resident_session.resident_shelter
             /\ audit_log' =
                   Append(audit_log,
                          [entity_type |-> "leave", entity_id |-> Len(leave_requests'),
                           shelter |-> resident_session.resident_shelter,
                           staff_user_id |-> NULL, action_type |-> "create"])]_vars

\* C10 witness: a submission was accepted; its row and its one create entry
\* are in the store.
C10_Witness ==
    /\ Accepted(response)
    /\ response.request_id \in DOMAIN leave_requests
    /\ leave_requests[response.request_id].status = "pending"
    /\ Count(audit_log, LAMBDA e : e.entity_type = "leave" /\ e.action_type = "create"
                                   /\ e.entity_id = response.request_id) = 1

\* a step in which an approve request handed a message to the provider and the
\* provider call failed
SmsSendFailed(p) ==
    /\ pc[p] = "approve_notify"
    /\ pc'[p] = "idle"
    /\ Len(sms_outbox') = Len(sms_outbox) + 1
    /\ ~sms_outbox'[Len(sms_outbox')].delivered

\* C11: a failed approval SMS does not undo the approval: the row keeps its
\* decision, the (leave, approve) entry stays in the audit trail, and the
\* request ends with the ordinary "Approved." answer.
C11_SmsFailureKeepsApproval ==
    [][\A p \in Staff :
          SmsSendFailed(p)
          => /\ leave_requests' = leave_requests
             /\ leave_requests'[req[p].id].status \in {"approved", "checked_in"}
             /\ leave_requests'[req[p].id].decided_at # NULL
             /\ leave_requests'[req[p].id].decided_by # NULL
             /\ SubSeq(audit_log', 1, Len(audit_log)) = audit_log
             /\ \E i \in DOMAIN audit_log' :
                   /\ audit_log'[i].entity_type = "leave"
                   /\ audit_log'[i].entity_id = req[p].id
                   /\ audit_log'[i].action_type = "approve"
             /\ response' = Flash(p, "Approved.", "ok")]_vars

\* C11 witness: the provider refused the approval message of a request that
\* is approved, and the staff member was answered "Approved.".
C11_Witness ==
    \E p \in Staff :
        /\ response = Flash(p, "Approved.", "ok")
        /\ sms_outbox # <<>>
        /\ ~sms_outbox[Len(sms_outbox)].delivered
        /\ sms_outbox[Len(sms_outbox)].body.leave_id \in DOMAIN leave_requests
        /\ leave_requests[sms_outbox[Len(sms_outbox)].body.leave_id].status = "approved"

\* C12: every failed approval SMS has its own (leave, sms_failed) audit entry
\* for that leave request.
C12_FailedSmsIsAudited ==
    \A id \in DOMAIN leave_requests :
        Count(sms_outbox, LAMBDA m : m.body.leave_id = id /\ ~m.delivered)
          <= Count(audit_log, LAMBDA e : e.entity_type = "leave" /\ e.entity_id = id
                                         /\ e.action_type = "sms_failed")

\* the latest of the events ids: greatest event_time, and among events of
\* equal event_time the one inserted last
LatestEvent(ids) ==
    CHOOSE i \in ids : \A j \in ids :
        \/ attendance_events[j].event_time < attendance_events[i].event_time
        \/ (attendance_events[j].event_time = attendance_events[i].event_time /\ j <= i)

\* the events of resident r the attendance page on display was computed from
ViewedEvents(r) ==
    EventsOf(attendance_events, attendance_view.n_events, r, attendance_view.shelter)

\* by the event log, resident r was out when the page was computed
WasOut(r) ==
    /\ ViewedEvents(r) # {}
    /\ attendance_events[LatestEvent(ViewedEvents(r))].event_type = "check_out"

\* C13: the attendance page reports a resident as out exactly when the latest
\* event of the resident in the shelter, by event_time and then by insertion
\* id, is a check_out.
C13_IsOutIsLatestEvent ==
    \A r \in DOMAIN attendance_view.rows : attendance_view.rows[r].is_out = WasOut(r)

\* C14: a resident is reported overdue exactly when the resident is out, the
\* most recent check_out carries an expected_back_time and that time is
\* strictly before the instant of evaluation; so after a check_in, and until
\* the next check_out, the resident is not reported overdue.
C14_OverdueIffOutAndPastExpected ==
    \A r \in DOMAIN attendance_view.rows :
        attendance_view.rows[r].is_overdue
          = (/\ WasOut(r)
             /\ LET co == LatestEvent(OfType(attendance_events, ViewedEvents(r), "check_out"))
                IN  /\ attendance_events[co].expected_back_time # NULL
                    /\ attendance_events[co].expected_back_time < attendance_view.at)

\* C15: with at least one check_out, the check-in time shown is the event_time
\* of the earliest check_in strictly after the most recent check_out, and is
\* empty when there is none.
C15_EarliestCheckinAfterCheckout ==
    \A r \in DOMAIN attendance_view.rows :
        LET outs == OfType(attendance_events, ViewedEvents(r), "check_out")
            t == attendance_events[LatestEvent(outs)].event_time
            after == {attendance_events[i].event_time :
                         i \in {j \in OfType(attendance_events, ViewedEvents(r), "check_in") :
                                   attendance_events[j].event_time > t}}
        IN  outs # {}
            => attendance_view.rows[r].checked_in_at
                 = (IF after = {} THEN NULL ELSE Min(after))

\* C16: a resident with no attendance events is reported in, not overdue,
\* with empty check-out, expected-back and check-in times.
C16_NoEventsMeansIn ==
    \A r \in DOMAIN attendance_view.rows :
        ViewedEvents(r) = {}
        => attendance_view.rows[r] =
              [resident_id |-> r, checked_out_at |-> NULL, expected_back_at |-> NULL,
               checked_in_at |-> NULL, is_out |-> FALSE, is_overdue |-> FALSE]

\* C16 witness: the page shows resident 1, who has no event, while the log
\* holds events of someone else.
C16_Witness ==
    /\ 1 \in DOMAIN attendance_view.rows
    /\ attendance_view.n_events >= 1
    /\ ViewedEvents(1) = {}
    /\ ~attendance_view.rows[1].is_out

\* C17: the event log of a resident in a shelter never holds two check_out
\* events without a check_in between them.
C17_AtMostOneOpenTrip ==
    \A i, j \in DOMAIN attendance_events :
        (/\ i < j
         /\ attendance_events[i].event_type = "check_out"
         /\ attendance_events[j].event_type = "check_out"
         /\ attendance_events[i].resident_id = attendance_events[j].resident_id
         /\ attendance_events[i].shelter = attendance_events[j].shelter)
        => \E k \in (i + 1)..(j - 1) :
              /\ attendance_events[k].event_type = "check_in"
              /\ attendance_events[k].resident_id = attendance_events[i].resident_id
              /\ attendance_events[k].shelter = attendance_events[i].shelter

\* the k-th event the trip print on display replayed
Replayed(k) == attendance_events[trip_view.replayed[k]]

\* C18: when the replayed sequence ends with a check_out, the trip print ends
\* with an open trip for it, checked_in_at empty.
C18_TrailingCheckoutReportedOpen ==
    (/\ trip_view.replayed # <<>>
     /\ Replayed(Len(trip_view.replayed)).event_type = "check_out")
    => /\ trip_view.trip_rows # <<>>
       /\ LET last == trip_view.trip_rows[Len(trip_view.trip_rows)]
          IN  /\ last.checked_out_at = Replayed(Len(trip_view.replayed)).event_time
              /\ last.checked_in_at = NULL

\* positions of the check_ins that find a trip open: those that directly
\* follow a check_out
ClosingPositions ==
    {k \in 2..Len(trip_view.replayed) :
        Replayed(k).event_type = "check_in" /\ Replayed(k - 1).event_type = "check_out"}

\* the closed trips of the print, in order
ClosedTrips == SelectSeq(trip_view.trip_rows, LAMBDA t : t.checked_in_at # NULL)

\* every check_in that finds a trip open closes that trip and no other, a
\* check_in without an open trip leaves no record
CheckinsCloseNearestCheckout ==
    /\ Len(ClosedTrips) = Cardinality(ClosingPositions)
    /\ \A n \in DOMAIN ClosedTrips :
          LET k == CHOOSE x \in ClosingPositions :
                       Cardinality({y \in ClosingPositions : y <= x}) = n
          IN  /\ ClosedTrips[n].checked_out_at = Replayed(k - 1).event_time
              /\ ClosedTrips[n].expected_back_at = Replayed(k - 1).expected_back_time
              /\ ClosedTrips[n].checked_in_at = Replayed(k).event_time

\* C19: each check_in closes exactly one trip, the one of the nearest
\* preceding check_out still open, a check_in with no open trip produces no
\* record, and check_out, check_in, check_out gives one closed trip followed
\* by a new trip with the fields of the second check_out.
C19_CheckinClosesOneTrip ==
    /\ CheckinsCloseNearestCheckout
    /\ [k \in DOMAIN trip_view.replayed |-> Replayed(k).event_type]
          = <<"check_out", "check_in", "check_out">>
       => /\ Len(trip_view.trip_rows) = 2
          /\ trip_view.trip_rows[1].checked_in_at = Replayed(2).event_time
          /\ trip_view.trip_rows[2] =
                [NoTrip EXCEPT !.checked_out_at = Replayed(3).event_time,
                               !.expected_back_at = Replayed(3).expected_back_time]

\* C20: a closed trip with an expected_back_at is late exactly when
\* checked_in_at is strictly later than expected_back_at; a trip without
\* expected_back_at has no late value.
C20_LateIsStrict ==
    \A n \in DOMAIN trip_view.trip_rows :
        LET t == trip_view.trip_rows[n]
        IN  IF t.expected_back_at = NULL THEN t.late = "None"
            ELSE /\ t.late \in {"True", "False"}
                 /\ t.late = "True" <=> t.checked_in_at > t.expected_back_at

\* C20 witness: a trip closed exactly at its expected-back time is shown as
\* not late.
C20_Witness ==
    \E n \in DOMAIN trip_view.trip_rows :
        /\ trip_view.trip_rows[n].expected_back_at # NULL
        /\ trip_view.trip_rows[n].checked_in_at = trip_view.trip_rows[n].expected_back_at
        /\ trip_view.trip_rows[n].late = "False"

\* the rows of the table a list page was computed from that are of its shelter
SeenInShelter == {i \in DOMAIN page.seen : page.seen[i].shelter = page.shelter}
NoRowTwice == Cardinality(Range(page.rows)) = Len(page.rows)
\* 22:00 local time on the local calendar date of the UTC instant t, in UTC
TenPmLocal(t) ==
    LET local == t - Hours(ChicagoOffsetHours)
    IN  (local \div Days(1)) * Days(1) + Hours(22) + Hours(ChicagoOffsetHours)

C22_OverdueIsAway ==
    page.handler = "staff_leave_overdue" =>
        \A i \in Range(page.rows) :
            /\ page.seen[i].status = "approved"
            /\ page.seen[i].leave_at <= page.at
            /\ page.seen[i].check_in_at = NULL

\* C23: no request is on the overdue list at an instant that is not after its
\* return_at
C23_NotOverdueBeforeReturn ==
    page.handler = "staff_leave_overdue" =>
        \A i \in Range(page.rows) : page.at > page.seen[i].return_at

\* C24: the away-now list of a shelter holds exactly its requests that are
\* approved, have leave_at not after the instant of the list and are not
\* checked in, in ascending order of return_at
C24_AwayNowIsApprovedLeftOpen ==
    page.handler = "staff_leave_away_now" =>
        /\ NoRowTwice
        /\ Range(page.rows) =
              {i \in SeenInShelter :
                  /\ page.seen[i].status = "approved"
                  /\ page.seen[i].leave_at <= page.at
                  /\ page.seen[i].check_in_at = NULL}
        /\ \A j, k \in DOMAIN page.rows :
              j < k => page.seen[page.rows[j]].return_at <= page.seen[page.rows[k]].return_at

\* an away-now list of two requests with different return times, the table
\* holding the later one first
C24_Witness ==
    /\ page.handler = "staff_leave_away_now"
    /\ Len(page.rows) = 2
    /\ page.rows[1] > page.rows[2]
    /\ page.seen[page.rows[1]].return_at < page.seen[page.rows[2]].return_at

\* the local calendar day, counted from the day of instant 0, of the UTC
\* instant t
LocalDay(t) == (t - Hours(ChicagoOffsetHours)) \div Days(1)

\* C29: the transport board asked for a day, and the print of a day, hold
\* exactly the shelter's pending and scheduled requests whose needed_at falls
\* on that day of the local calendar
C29_ListedOnLocalDay ==
    (page.handler \in {"staff_transport_board", "staff_transport_print"}
     /\ page.day.text = "date") =>
        /\ NoRowTwice
        /\ Range(page.rows) =
              {i \in SeenInShelter :
                  /\ page.seen[i].status \in {"pending", "scheduled"}
                  /\ LocalDay(page.seen[i].needed_at) = page.day.day}

\* the sign-in with this shelter and code should be let in
MayEnter(shelter, code_raw) ==
    /\ shelter \in {SHELTERS[i] : i \in DOMAIN SHELTERS}
    /\ Len(Strip(code_raw)) = 8
    /\ \A i \in DOMAIN Strip(code_raw) : Strip(code_raw)[i] \in Digits
    /\ \E r \in DOMAIN residents :
          /\ residents[r].is_active
          /\ residents[r].shelter = shelter
          /\ residents[r].resident_code = Strip(code_raw)

C27_LeaveFormOnlyAfterChoice ==
    (response.handler = "leave" /\ response.status \in {200, 400}) =>
        resident_session.sms_consent_done

\* C26: no two rows of residents hold the same assigned resident_code
C26_AssignedCodesDiffer ==
    \A i, j \in DOMAIN residents :
        (i # j /\ residents[i].resident_code \notin {NULL_TEXT, <<>>}) =>
            residents[i].resident_code # residents[j].resident_code

\* a resident has been added, the row that had no code has been given one,
\* a resident has been transferred, and a request of the other staff member
\* has failed on the unique index
C26_Witness ==
    /\ Len(residents) > Len(InitResidents) + 1
    /\ \A i \in DOMAIN residents : residents[i].resident_code \notin {NULL_TEXT, <<>>}
    /\ resident_transfers # <<>>
    /\ response.status = 500

\* a schedule request of staff member p is answered for want of a driver name
DriverNameRefused(p) ==
    /\ pc[p] = "idle" /\ pc' = pc
    /\ started' = started + 1
    /\ response'.to = p
    /\ response'.flashed = <<"Driver name required.">>

\* C28: the status of a transport request only ever changes from pending to
\* scheduled, in the UPDATE of a schedule request that carries a driver name;
\* a schedule request without one changes no row and logs nothing; and every
\* scheduled row has a driver name, scheduled_at and scheduled_by
C28_ScheduledOnlyWithDriver ==
    [][/\ \A id \in DOMAIN transport_requests :
             transport_requests'[id].status # transport_requests[id].status =>
                /\ transport_requests[id].status = "pending"
                /\ transport_requests'[id].status = "scheduled"
                /\ \E p \in Staff :
                      /\ pc[p] = "idle" /\ pc'[p] = "schedule_log"
                      /\ req'[p].id = id
                      /\ req'[p].driver_name # <<>>
       /\ \A p \in Staff :
             DriverNameRefused(p) =>
                transport_requests' = transport_requests /\ audit_log' = audit_log
       /\ \A id \in DOMAIN transport_requests' :
             transport_requests'[id].status = "scheduled" =>
                /\ transport_requests'[id].driver_name \notin {NULL_TEXT, <<>>}
                /\ transport_requests'[id].scheduled_at # NULL
                /\ transport_requests'[id].scheduled_by # NULL]_vars

\* a request has been scheduled, and a later schedule request without a
\* driver name has been refused
C28_Witness ==
    /\ \E id \in DOMAIN transport_requests : transport_requests[id].status = "scheduled"
    /\ response.flashed = <<"Driver name required.">>

\* the call hands number to the provider
Sent(number) ==
    /\ Len(sms_outbox') = Len(sms_outbox) + 1
    /\ sms_outbox'[Len(sms_outbox')].to = number

\* C30: with the provider configured, a number with a leading plus is sent as
\* it is; of any other number the digits alone count: ten digits are sent
\* behind +1, eleven digits with a leading 1 behind +, and nothing is sent for
\* any other number; so 5551234567 and 15551234567 go to +15551234567,
\* +442071838750 goes unchanged and 123 is not sent
C30_PhoneNormalization ==
    [][\A raw \in PhoneInputs, ok \in BOOLEAN :
          (twilio_configured /\ SendSms(raw, AnnsLeave, ok)) =>
             LET digits == SelectSeq(raw, LAMBDA ch : ch \in Digits)
             IN  /\ Head(raw) = "+" => Sent(raw)
                 /\ (Head(raw) # "+" /\ Len(digits) = 10) => Sent(<<"+", "1">> \o digits)
                 /\ (Head(raw) # "+" /\ Len(digits) = 11 /\ Head(digits) = "1") =>
                       Sent(<<"+">> \o digits)
                 /\ (Head(raw) # "+" /\ Len(digits) # 10
                     /\ ~(Len(digits) = 11 /\ Head(digits) = "1")) =>
                       sms_outbox' = sms_outbox
                 /\ raw \in {TenDigits, <<"1">> \o TenDigits} =>
                       Sent(<<"+", "1">> \o TenDigits)
                 /\ raw = Text(<<1, 2, 3>>) => sms_outbox' = sms_outbox]_vars

\* a message has gone to the number made of ten digits, and one to a number
\* with a leading plus
C30_Witness ==
    /\ \E i \in DOMAIN sms_outbox : sms_outbox[i].to = <<"+", "1">> \o TenDigits
    /\ \E i \in DOMAIN sms_outbox :
          sms_outbox[i].to = <<"+">> \o Text(<<4, 4, 2, 0, 7, 1, 8, 3, 8, 7, 5, 0>>)

\* POST /admin/wipe-all-data (the role checks pass and no row lacks a code):
\* the five tables are emptied, then one audit entry is written
WipeAllData(p) ==
    /\ CanStart(p)
    /\ started' = started + 1
    /\ attendance_events' = <<>>
    /\ leave_requests' = <<>>
    /\ transport_requests' = <<>>
    /\ residents' = <<>>
    /\ audit_log' = log_action(<<>>, "admin", NULL, "", staff_session[p].staff_user_id,
                               "wipe_all_data")
    /\ response' = [NoResponse EXCEPT !.to = p, !.handler = "admin", !.status = 200]
    /\ attendance_view' = NoAttendanceView
    /\ trip_view' = NoTripView
    /\ UNCHANGED <<now, page, resident_transfers, sms_outbox, twilio_configured,
                   resident_session, staff_session, pc, req, rowcount, writes>>

\* attendance is recorded by staff and at the kiosk, and an administrator
\* wipes the data
NextWipe ==
    \/ Advance(MaxAttendanceNow)
    \/ \E eb \in KioskExpectedBacks : KioskCheckoutOut("Abba", 1, eb)
    \/ \E p \in Staff, rid \in AttendanceResidentIds : StaffAttendanceCheckIn(p, rid)
    \/ WipeAllData(1)

SpecWipe == Init /\ [][NextWipe]_vars

\* every operation that could text: a resident asks for leave and for a ride,
\* a staff member decides, checks in and schedules, and attendance is
\* recorded by them and at the kiosk
NextTexts ==
    \/ ResidentSignin("Abba", Code1)
    \/ ResidentLeave(GoodLeaveForm)
    \/ ResidentTransport(GoodTransportForm)
    \/ StaffLeaveApprove(1, 1, <<>>)
    \/ ApproveUpdate(1)
    \/ ApproveLog(1)
    \/ ApproveNotify(1, TRUE)
    \/ StaffLeaveDeny(1, 1, <<"o", "k">>)
    \/ DenyLog(1)
    \/ StaffLeaveCheckIn(1, 1)
    \/ CheckInLog(1)
    \/ StaffTransportSchedule(1, 1, <<"J", "o">>, <<>>)
    \/ ScheduleLog(1)
    \/ KioskCheckoutOut("Abba", 1, NoTime)
    \/ StaffAttendanceCheckIn(1, 1)
    \/ StaffAttendanceCheckOut(1, <<"1">>, NoTime)

\* the provider is configured and the kiosk has recorded two check-outs
InitTexts ==
    /\ now = 0
    /\ residents = InitResidents
    /\ leave_requests = <<>>
    /\ transport_requests = <<>>
    /\ audit_log = <<>>
    /\ sms_outbox = <<>>
    /\ twilio_configured = TRUE
    /\ resident_session = NoResidentSession
    /\ staff_session = [p \in Staff |-> [staff_user_id |-> p, shelter |-> SHELTERS[1]]]
    /\ pc = [p \in Staff |-> "idle"]
    /\ req = [p \in Staff |-> NoReq]
    /\ rowcount = [p \in Staff |-> NULL]
    /\ response = NoResponse
    /\ started = 0
    /\ writes = [k \in {"approve", "deny", "check_in", "schedule"} |-> <<>>]
    /\ attendance_events =
          [i \in 1..(MaxAttendanceEvents - 1) |->
              AttendanceEvent(1, "Abba", "check_out", 0, NULL, NULL)]
    /\ attendance_view = NoAttendanceView
    /\ trip_view = NoTripView
    /\ page = NoPage
    /\ resident_transfers = <<>>

SpecTexts == InitTexts /\ [][NextTexts]_vars

\* resident 1 has signed in at Abba and declined SMS consent; in that session
\* they ask for leave, and staff approve
InitDeclined ==
    /\ now = 0
    /\ residents = InitResidents
    /\ leave_requests = <<>>
    /\ transport_requests = <<>>
    /\ audit_log = <<>>
    /\ sms_outbox = <<>>
    /\ twilio_configured \in BOOLEAN
    /\ resident_session =
          [resident_session_start(NoResidentSession, 1, "Abba", Code1)
              EXCEPT !.sms_consent_done = TRUE, !.sms_opt_in = FALSE]
    /\ staff_session = [p \in Staff |-> [staff_user_id |-> p, shelter |-> SHELTERS[1]]]
    /\ pc = [p \in Staff |-> "idle"]
    /\ req = [p \in Staff |-> NoReq]
    /\ rowcount = [p \in Staff |-> NULL]
    /\ response = [ResidentResponse("consent", NoForm, 302, <<>>, NULL)
                      EXCEPT !.location = LeaveUrl]
    /\ started = 0
    /\ writes = [k \in {"approve", "deny", "check_in", "schedule"} |-> <<>>]
    /\ attendance_events = <<>>
    /\ attendance_view = NoAttendanceView
    /\ trip_view = NoTripView
    /\ page = NoPage
    /\ resident_transfers = <<>>

NextDeclined ==
    \/ Tick
    \/ \E choice \in {"DECLINE", "maybe"} : ResidentConsent(choice, <<>>)
    \/ ResidentLeave(GoodLeaveForm)
    \/ \E p \in Staff :
          \/ StaffLeaveApprove(p, 1, <<>>)
          \/ ApproveUpdate(p)
          \/ ApproveLog(p)
          \/ \E ok \in BOOLEAN : ApproveNotify(p, ok)

SpecDeclined == InitDeclined /\ [][NextDeclined]_vars

\* two shelters side by side: each has a pending leave request and a pending
\* ride, and Haven an approved leave request as well; the staff member of Abba decides, checks in and schedules, naming
\* requests of either shelter, and the staff of both read the lists
ScopeLeaveTable ==
    LET pending(k) ==
            NewLeaveRequest(InitResidents[k].shelter, InitResidents[k].resident_identifier,
                            InitResidents[k].first_name, InitResidents[k].last_name,
                            Phone10, <<"x">>, 0, T0, 0)
    IN  <<pending(1), pending(2), ApproveSet(pending(2), 0, 2, <<>>)>>
ScopeTransportTable ==
    [k \in DOMAIN InitResidents |->
        NewTransportRequest(InitResidents[k].shelter, InitResidents[k].resident_identifier,
                            InitResidents[k].first_name, InitResidents[k].last_name,
                            Hours(7), <<"a">>, <<"b">>, 0)]
ScopeIds == DOMAIN ScopeLeaveTable

\* a step of a request of staff member p
StaffStep(p) ==
    \/ \E id \in ScopeIds : StaffLeaveApprove(p, id, <<>>)
    \/ ApproveUpdate(p)
    \/ ApproveLog(p)
    \/ ApproveNotify(p, TRUE)
    \/ \E id \in ScopeIds : StaffLeaveDeny(p, id, <<"o", "k">>)
    \/ DenyLog(p)
    \/ \E id \in ScopeIds : StaffLeaveCheckIn(p, id)
    \/ CheckInLog(p)
    \/ \E id \in ScopeIds : StaffTransportSchedule(p, id, <<"J", "o">>, <<>>)
    \/ ScheduleLog(p)

NextScope ==
    \/ Elapse({5 * 3600})
    \/ StaffStep(1)
    \/ \E p \in Staff : StaffLeavePending(p)
    \/ \E p \in Staff : StaffLeaveAwayNow(p)
    \/ \E p \in Staff : StaffLeaveOverdue(p)
    \/ \E p \in Staff : StaffTransportBoard(p, NoDay)

SpecScope ==
    InitWith(InitResidents, ScopeLeaveTable, ScopeTransportTable) /\ [][NextScope]_vars

\* staff check residents out on an ordinary evening and in the night in which
\* daylight time ends: at 00:30 daylight time and at 01:30 standard time
DstEndsDay == DstEndsUtc \div Days(1)
CheckOutInstants ==
    {DstEndsDay * SecondsPerDay + 5 * 3600 + 1800, DstEndsDay * SecondsPerDay + 7 * 3600 + 1800}
CheckOutTimes == {NoTime, BadTime, HHMM(0, 10), HHMM(1, 45), HHMM(18, 1), HHMM(24, 0)}

NextCheckOut ==
    \/ Advance(MaxAttendanceNow)
    \/ Elapse(CheckOutInstants)
    \/ \E eb \in CheckOutTimes : StaffAttendanceCheckOut(1, <<"1">>, eb)
    \/ StaffAttendance(1)

SpecCheckOut == Init /\ [][NextCheckOut]_vars

\* ------------------------------------------------------------ claims C31..C40
\* C31: every operation that changes persistent state appends an audit entry;
\* here for the attendance events, whether a staff member or the kiosk
\* records them: a step that adds an attendance event adds an audit entry
C31_EveryEventIsAudited ==
    [][attendance_events' # attendance_events => audit_log' # audit_log]_vars

\* C38: every attendance event is recorded for a resident that exists, is
\* active and belongs to the event's shelter (the residents' table does not
\* change in these behaviours, so the table now is the table at recording
\* time)
C38_EventsOfActiveResidentsOfTheShelter ==
    \A i \in DOMAIN attendance_events :
       LET event == attendance_events[i]
       IN  /\ event.resident_id \in DOMAIN residents
           /\ residents[event.resident_id].is_active
           /\ residents[event.resident_id].shelter = event.shelter

\* C36: the fields of a leave request agree with its status: a pending
\* request has no decision and no check-in; an approved or denied one has
\* decided_at and decided_by and no check_in_at; a request is checked_in
\* exactly when check_in_at is set, and then check_in_by, decided_at and
\* decided_by are set; a denied request has a non-empty decision_note
C36_FieldsAgreeWithStatus ==
    \A id \in DOMAIN leave_requests :
       LET row == leave_requests[id]
       IN  /\ row.status = "pending" =>
                 row.decided_at = NULL /\ row.decided_by = NULL /\ row.check_in_at = NULL
           /\ row.status \in {"approved", "denied"} =>
                 row.decided_at # NULL /\ row.decided_by # NULL /\ row.check_in_at = NULL
           /\ row.status = "checked_in" <=> row.check_in_at # NULL
           /\ row.status = "checked_in" =>
                 row.check_in_by # NULL /\ row.decided_at # NULL /\ row.decided_by # NULL
           /\ row.status = "denied" => row.decision_note \notin {<<>>, NULL_TEXT}

\* C34: code assignment tries a bounded number of candidates and assigns only
\* a candidate that was checked and found unused; here for the lazy backfill:
\* the UPDATE that stores a code in a row without one stores a code whose
\* check found no row holding it
C34_BackfillAssignsCheckedCodes ==
    [][\A p \in Staff :
          (BackfillUpdate(p) /\ residents' # residents) => ~req[p].exists]_vars

\* a resident with a session asks for leave and for a ride while staff
\* deactivate and reactivate them
NextDeactivation ==
    \/ Tick
    \/ ResidentSignin("Abba", Code1)
    \/ ResidentLogout
    \/ ResidentLeave(GoodLeaveForm)
    \/ ResidentTransport(GoodTransportForm)
    \/ \E active \in {"0", "1"} : StaffResidentSetActive(1, 1, active)

SpecDeactivation == Init /\ [][NextDeactivation]_vars

\* C39: after staff deactivate a resident no leave or transport request is
\* created on their behalf, also from a session that began before: a step
\* that creates a request is taken for a resident who is active
C39_NoRequestForInactiveResident ==
    [][(leave_requests' # leave_requests \/ transport_requests' # transport_requests) =>
          residents[resident_session.resident_id].is_active]_vars

Extends(old, new) == Len(new) >= Len(old) /\ SubSeq(new, 1, Len(old)) = old

\* C35: attendance events and audit entries are append-only: every step
\* leaves the events and entries there are in place, adding at the end at most
C35_AppendOnly ==
    [][/\ Extends(attendance_events, attendance_events')
       /\ Extends(audit_log, audit_log')]_vars

\* C33: an SMS is sent only as part of a leave approval and only when the
\* approved request has a stored phone: a step that changes the outbox is the
\* last step of an approval, of a request that has a phone, and adds one
\* message, to that phone; no step of a leave submission, deny, check-in,
\* transport submission, scheduling or attendance operation changes the outbox
C33_SmsOnlyOnApproval ==
    [][sms_outbox' # sms_outbox =>
          \E p \in Staff :
             /\ pc[p] = "approve_notify" /\ pc'[p] = "idle"
             /\ response'.flashed = <<"Approved.">>
             /\ leave_requests[req[p].id].resident_phone \notin {<<>>, NULL_TEXT}
             /\ Len(sms_outbox') = Len(sms_outbox) + 1
             /\ SubSeq(sms_outbox', 1, Len(sms_outbox)) = sms_outbox
             /\ sms_outbox'[Len(sms_outbox')].to =
                   NormalizePhone(leave_requests[req[p].id].resident_phone)]_vars

\* an approval has texted the resident, and a check-in, a scheduling and an
\* attendance event recorded by staff are on record
C33_Witness ==
    /\ sms_outbox # <<>>
    /\ \E i \in DOMAIN audit_log : audit_log[i].action_type = "check_in"
    /\ \E id \in DOMAIN transport_requests : transport_requests[id].status = "scheduled"
    /\ \E i \in DOMAIN attendance_events : attendance_events[i].staff_user_id # NULL

\* C37: no approval SMS is sent for a leave request submitted in a resident
\* session in which the resident declined SMS consent; in these behaviours
\* the session has declined from the start and every request is submitted in
\* it, so no SMS is to be sent at all
C37_NoSmsAfterDecline ==
    (resident_session.sms_consent_done /\ ~resident_session.sms_opt_in) => sms_outbox = <<>>

ScopedLists ==
    {"staff_leave_pending", "staff_leave_away_now", "staff_leave_overdue",
     "staff_transport_board"}

\* C32: a staff approve, deny, check-in or schedule request issued with
\* session shelter S never changes a leave or transport request whose shelter
\* is not S, and the pending, away-now, overdue and transport board lists for
\* S never show a request of another shelter
C32_ShelterScoped ==
    [][/\ \A p \in Staff :
             StaffStep(p) =>
                /\ \A id \in DOMAIN leave_requests :
                      leave_requests[id].shelter # staff_session[p].shelter =>
                         leave_requests'[id] = leave_requests[id]
                /\ \A id \in DOMAIN transport_requests :
                      transport_requests[id].shelter # staff_session[p].shelter =>
                         transport_requests'[id] = transport_requests[id]
       /\ page'.handler \in ScopedLists =>
             \A i \in DOMAIN page'.rows : page'.seen[page'.rows[i]].shelter = page'.shelter]_vars

\* staff of Abba have asked to approve the request of Haven and were refused,
\* no request has changed, and the pending list of Abba shows its own
C32_Witness ==
    /\ response.to = 1 /\ response.flashed = <<"Not pending.">>
    /\ leave_requests = ScopeLeaveTable
    /\ page.handler = "staff_leave_pending" /\ page.shelter = "Abba" /\ page.rows = <<1>>

\* C40: for a staff check-out given a valid HH:MM the stored
\* expected_back_time is strictly later than the check-out instant and at most
\* 24 hours after it
C40_ExpectedBackWithinADay ==
    \A i \in DOMAIN attendance_events :
       LET event == attendance_events[i]
       IN  (/\ event.event_type = "check_out" /\ event.staff_user_id # NULL
            /\ event.expected_back_time # NULL) =>
              /\ event.event_time < event.expected_back_time
              /\ event.expected_back_time <= event.event_time + Days(1)

====
